---- MODULE Spec2Model ----
(***************************************************************************)
(* Model of the in-memory job registry (backend/generation_jobs.py), the   *)
(* session registry (backend/simulation_tracker.py), the background tasks  *)
(* of backend/server.py that drive generation jobs, and its status and     *)
(* stop endpoints, which read the external thread store.                   *)
(*                                                                         *)
(* The server runs on one asyncio event loop: a handler or a background    *)
(* task runs without interruption from one await to the next, so every     *)
(* action below is one such segment.  The update_job calls a segment       *)
(* issues for its job are recorded, in order, in written.                  *)
(*                                                                         *)
(* Optional[T] values are sequences of length at most one: None is <<>>,   *)
(* a present value v is <<v>>.  What a direct call or an endpoint returns  *)
(* is kept in job_call and session_call.                                   *)
(***************************************************************************)
EXTENDS Integers, Sequences, FiniteSets, TLC

VARIABLES
    generation_jobs,      \* generation_jobs.py:37, job id -> GenerationJob
    issued,               \* ids uuid4 has handed out so far
    task,                 \* per job id: the background task's position and locals
    now,                  \* datetime.now(timezone.utc), in clock ticks
    written,              \* per job id: the update_job calls of its task's last segment
    simulation_sessions,  \* simulation_tracker.py:7, simulation id -> session dict
    job_call,             \* the last direct call of the job registry and its return
    session_call,         \* the last direct call of the session registry and its return
    threads,              \* the external thread store, thread id -> thread
    thread_statuses,      \* thread_status.py:11, thread id -> status dict
    background,           \* per thread id: its run_simulation_background task
    eval_context,         \* what run_evaluation last handed to the evaluators
    generator,            \* server.py:274, the configuration of persona_manager.generator
    session_lock,         \* simulation_tracker.py:8, the thread holding it, or None
    status_lock,          \* thread_status.py:12, the thread holding it, or None
    callers               \* per thread: the registry call it is in and its position

vars == <<generation_jobs, issued, task, now, written, simulation_sessions,
          job_call, session_call, threads, thread_statuses, background, eval_context,
          generator, session_lock, status_lock, callers>>

(* ------------------------------ bounds --------------------------------- *)

MaxJobs == 1          \* jobs started through the async endpoints
MaxIds == 2           \* job ids of direct registry calls
MaxTime == 1          \* clock ticks
MaxSessions == 1      \* simulation ids
MaxItems == 3         \* personas or goals one generate call returns
MaxMessages == 2      \* messages of a trajectory or of a checkpoint
MaxThreads == 1       \* threads run_simulation creates
MaxRewards == 4       \* messages of an evaluated thread

JobIds == 1 .. MaxJobs
RegIds == 1 .. MaxIds
MaxAges == 0 .. MaxTime
SimIds == 1 .. MaxSessions
ThreadIds == 1 .. MaxThreads

None == <<>>
Some(v) == <<v>>

(* ------------------------- generation_jobs.py -------------------------- *)

\* GenerationJob(id=job_id): the dataclass defaults.
GenerationJob(job_id, t) ==
    [ id              |-> job_id,
      status          |-> "pending",
      stage           |-> "Initializing...",
      progress        |-> 0,
      error           |-> None,
      result          |-> None,
      started_at      |-> t,
      completed_at    |-> None,
      generation_time |-> None ]

\* An update that is cut off after its first setattr, the status.
SetAttrsTorn(job, kwargs) ==
    [f \in DOMAIN job |-> IF f = "status" /\ f \in DOMAIN kwargs THEN kwargs[f] ELSE job[f]]

\* for key, value in kwargs.items(): setattr(job, key, value)
SetAttrs(job, kwargs) ==
    [f \in DOMAIN job |-> IF f \in DOMAIN kwargs THEN kwargs[f] ELSE job[f]]

\* A variant that inserts a record for an unknown id (an upsert).
update_job_upsert(reg, job_id, kwargs) ==
    IF job_id \in DOMAIN reg
    THEN [reg EXCEPT ![job_id] = SetAttrs(@, kwargs)]
    ELSE [k \in DOMAIN reg \cup {job_id} |->
            IF k = job_id THEN SetAttrs(GenerationJob(job_id, 0), kwargs) ELSE reg[k]]

update_job(reg, job_id, kwargs) ==
    IF job_id \in DOMAIN reg
    THEN [reg EXCEPT ![job_id] = SetAttrs(@, kwargs)]
    ELSE reg

\* The registry after a sequence of update_job calls on one id.
RECURSIVE update_job_calls(_, _, _)
update_job_calls(reg, job_id, calls) ==
    IF calls = <<>> THEN reg
    ELSE update_job_calls(update_job(reg, job_id, Head(calls)), job_id, Tail(calls))

get_job(reg, job_id) ==
    IF job_id \in DOMAIN reg THEN Some(reg[job_id]) ELSE None

\* A variant that spares the jobs that are not finished yet.
IsOldAndFinished(job, t, max_age_seconds) ==
    /\ job.status \in {"completed", "failed"}
    /\ t - job.started_at > max_age_seconds

\* A variant with an inclusive threshold.
IsOldInclusive(job, t, max_age_seconds) == t - job.started_at >= max_age_seconds

\* age = (now - job.started_at).total_seconds(); age > max_age_seconds
IsOld(job, t, max_age_seconds) == t - job.started_at > max_age_seconds

cleanup_old_jobs(reg, t, max_age_seconds) ==
    LET to_remove == {job_id \in DOMAIN reg : IsOld(reg[job_id], t, max_age_seconds)}
    IN  [job_id \in DOMAIN reg \ to_remove |-> reg[job_id]]

(* ------------------- server.py: persona generation jobs ---------------- *)

\* The request fields the job tracking reads.  custom stands for
\* model != "gpt-4o-mini" or temperature != 0.7 or max_tokens != 1500.
Request(description, custom, organization_id, use_exa_enrichment, count, product_id) ==
    [ description        |-> description,
      custom             |-> custom,
      organization_id    |-> organization_id,
      use_exa_enrichment |-> use_exa_enrichment,
      count              |-> count,
      product_id         |-> product_id ]

NoRequest == Request("", FALSE, None, FALSE, 1, None)

\* GeneratePersonaRequest: every combination of the options; a request without
\* description and message is rejected before any option is read.
PersonaRequests ==
    {NoRequest} \cup
    { Request("description", c, o, e, n, None) :
        c \in BOOLEAN, o \in {None, Some("org")}, e \in BOOLEAN, n \in {1, 2} }

\* What an awaited collaborator call can do: return n items, or raise.
Returned(n) == [kind |-> "return", n |-> n, type |-> "", msg |-> ""]
Raised(type, msg) == [kind |-> "raise", n |-> 0, type |-> type, msg |-> msg]

Exceptions ==
    { Raised(ty, m) : ty \in {"ValueError", "Exception"},
                      m \in {"Exa search failed", "model unavailable"} }

\* server.py:260
DescriptionRequired ==
    [status |-> "failed", error |-> Some("description or message required")]

\* server.py:264
Preparing == [status |-> "running", stage |-> "Preparing generation", progress |-> 10]

\* server.py:268
Configuring == [stage |-> "Configuring <model>", progress |-> 15]

\* server.py:278
LoadingOrganization == [stage |-> "Loading organization context", progress |-> 20]

\* server.py:286
SearchingExa == [stage |-> "Searching Exa.ai for: <description>", progress |-> 25]

\* server.py:299
ExaComplete ==
    [stage |-> "Exa enrichment complete, generating with AI...", progress |-> 50]

\* The model-call label written with a progress below the earlier stages'.
CallingModelLow(req) ==
    IF req.count > 1
    THEN [stage |-> "Generating <count> personas with <model>...", progress |-> 15]
    ELSE [stage |-> "Calling AI model (<model>)...", progress |-> 15]

\* server.py:302-305
CallingModel(req) ==
    IF req.count > 1
    THEN [stage |-> "Generating <count> personas with <model>...", progress |-> 40]
    ELSE [stage |-> "Calling AI model (<model>)...", progress |-> 40]

\* server.py:310
ExaFailed(msg) ==
    [status |-> "failed", error |-> Some(msg), stage |-> "Exa enrichment failed"]

\* server.py:318
Processing == [stage |-> "Processing AI response", progress |-> 85]

\* server.py:321
NoPersona == [status |-> "failed", error |-> Some("No persona generated")]

\* server.py:327-330
Saving(req) ==
    IF req.count > 1
    THEN [stage |-> "Saving <count> personas", progress |-> 95]
    ELSE [stage |-> "Saving persona", progress |-> 95]

\* server.py:341-363: the result payload, by request.count and len(personas).
PersonaResult(req, n) ==
    [items |-> IF req.count = 1 THEN "persona" ELSE "personas", n |-> n]

\* The completing write without its result.
PersonaCompletedNoResult(req, n, t) ==
    [ status          |-> "completed",
      stage           |-> "Complete",
      progress        |-> 100,
      generation_time |-> Some("elapsed"),
      completed_at    |-> Some(t) ]

\* server.py:365-373
PersonaCompleted(req, n, t) ==
    [ status          |-> "completed",
      stage           |-> "Complete",
      progress        |-> 100,
      result          |-> Some(PersonaResult(req, n)),
      generation_time |-> Some("elapsed"),
      completed_at    |-> Some(t) ]

\* The failure write without the status.
ErrorOccurredNoStatus(msg) == [error |-> Some(msg), stage |-> "Error occurred"]

\* server.py:379
ErrorOccurred(msg) ==
    [status |-> "failed", error |-> Some(msg), stage |-> "Error occurred"]

\* server.py:256-286: the update_job calls up to the await of
\* persona_manager.generate.
PersonaStartWrites(req) ==
    IF req.description = ""
    THEN <<DescriptionRequired>>
    ELSE <<Preparing>>
         \o (IF req.custom THEN <<Configuring>> ELSE <<>>)
         \o (IF req.organization_id # None THEN <<LoadingOrganization>> ELSE <<>>)
         \o (IF req.use_exa_enrichment THEN <<SearchingExa>> ELSE <<>>)

\* The empty-result branch without its return: the task goes on to save.
NoPersonaWritesNoReturn(req, n, t) ==
    <<NoPersona, Saving(req), PersonaCompleted(req, n, t)>>

\* server.py:320-322
NoPersonaWrites(req, n, t) == <<NoPersona>>

\* server.py:297-373: the update_job calls after persona_manager.generate
\* returned n personas.
PersonaReturnWrites(req, n, t) ==
    <<IF req.use_exa_enrichment THEN ExaComplete ELSE CallingModel(req)>>
    \o <<Processing>>
    \o (IF n = 0
        THEN NoPersonaWrites(req, n, t)
        ELSE <<Saving(req), PersonaCompleted(req, n, t)>>)

\* The exception swallowed: no update_job call at all.
PersonaRaiseWritesSwallowed(exc) == <<>>

\* server.py:307-312 and 375-379: the update_job call after
\* persona_manager.generate raised; of the two messages, "Exa search failed"
\* is the one with "Exa" in str(e).
PersonaRaiseWrites(exc) ==
    IF exc.type = "ValueError" /\ exc.msg = "Exa search failed"
    THEN <<ExaFailed(exc.msg)>>
    ELSE <<ErrorOccurred(exc.msg)>>


(* --------------------- server.py: goal generation jobs ----------------- *)

\* GoalGenerateRequest: product_id decides whether storage.get_product is
\* awaited; count only reaches the stage label and the collaborator.
GoalRequests ==
    { Request("", FALSE, None, FALSE, n, p) : n \in {1, 2}, p \in {None, Some("product")} }

\* server.py:700
Queued == [status |-> "queued", stage |-> "Initializing goal generation", progress |-> 0]

\* server.py:717
LoadingProduct == [stage |-> "Loading product documentation...", progress |-> 10]

\* server.py:732
LoadingPersona == [stage |-> "Loading persona context...", progress |-> 20]

\* server.py:741
AIGenerating == [stage |-> "AI generating <count> goals...", progress |-> 30]

\* server.py:757
NoGoals ==
    [status |-> "failed", error |-> Some("Goal generation failed - no goals returned")]

\* server.py:782-792
GoalCompleted(n) ==
    [ status   |-> "completed",
      stage    |-> "Goal generation complete",
      progress |-> 100,
      result   |-> Some([items |-> "goals", n |-> n]) ]

\* server.py:798
GenerationFailed(msg) ==
    [status |-> "failed", error |-> Some(msg), stage |-> "Generation failed"]

\* server.py:731-741: the update_job calls between the product lookup and the
\* await of goal_manager.generate.
GoalContextWrites == <<LoadingPersona, AIGenerating>>

(* ------------------------- background tasks ---------------------------- *)

\* A task's position: "none" (no task), "queued" (added, not started),
\* the await it is suspended at, or "done".  raised keeps the exception a
\* collaborator call ended the task with.
Task(kind, pc, req, goals, saved, raised) ==
    [kind |-> kind, pc |-> pc, req |-> req, goals |-> goals, saved |-> saved,
     raised |-> raised]

NoTask == Task("none", "none", NoRequest, 0, 0, None)
Done(kind, raised) == Task(kind, "done", NoRequest, 0, 0, raised)

\* A direct registry call: the operation, the id and argument it was given,
\* and what it returned.
Call(op, id, arg, ret) == [op |-> op, id |-> id, arg |-> arg, ret |-> ret]

\* uuid.uuid4(): an id never handed out before.
uuid4_reused(ids, used) == CHOOSE id \in ids : \A other \in ids : id <= other

uuid4(ids, used) == CHOOSE id \in ids \ used : \A other \in ids \ used : id <= other

\* A handler that leaves the registration of the job to its task.
create_job_later(reg, job_id, t) == reg

\* generation_jobs.py:39-44
create_job(reg, job_id, t) ==
    [k \in DOMAIN reg \cup {job_id} |-> IF k = job_id THEN GenerationJob(job_id, t) ELSE reg[k]]

\* What an endpoint answers: the HTTP status code, the detail of the
\* HTTPException it raised (the pieces of its text, in order) and the body
\* it returned.
Response(status_code, detail, body) ==
    [status_code |-> status_code, detail |-> detail, body |-> body]

\* testbed_bridge.py:52-74: the configuration persona_manager is built with,
\* named by its model.
default_generator_config == "gpt-4o-mini"

\* The threads that call the session registry and the thread-status cache.
Callers == {"t1", "t2"}

\* A thread that is in no call.
NoCall == [op |-> "none", id |-> 0, arg |-> 0, pc |-> "idle", entered |-> <<>>,
           since |-> 0, local |-> {}]

\* The registries of a freshly started server.
InitServer ==
    /\ generation_jobs = <<>>
    /\ issued = {}
    /\ task = [j \in JobIds |-> NoTask]
    /\ now = 0
    /\ written = [j \in JobIds |-> <<>>]
    /\ simulation_sessions = <<>>
    /\ job_call = Call("none", 0, 0, None)
    /\ session_call = Call("none", 0, 0, None)
    /\ thread_statuses = <<>>
    /\ background = <<>>
    /\ eval_context = None
    /\ generator = default_generator_config
    /\ session_lock = None
    /\ status_lock = None
    /\ callers = [t \in Callers |-> NoCall]

\* A freshly started server next to an empty thread store.
Init ==
    /\ InitServer
    /\ threads = <<>>

\* server.py:213-235
generate_persona_async(req) ==
    /\ JobIds \ issued # {}
    /\ LET job_id == uuid4(JobIds, issued) IN
        /\ generation_jobs' = create_job(generation_jobs, job_id, now)
        /\ issued' = issued \cup {job_id}
        /\ task' = [task EXCEPT ![job_id] = Task("persona", "queued", req, 0, 0, None)]
        /\ written' = [written EXCEPT ![job_id] = <<>>]
    /\ UNCHANGED <<now, simulation_sessions, job_call, session_call, threads,
                   thread_statuses, background, eval_context,
                   generator, session_lock, status_lock, callers>>

\* server.py:252-295: from the start of the task to the await of
\* persona_manager.generate.  With custom settings the generator of
\* persona_manager is replaced first by one with the configuration of the
\* request (server.py:269-274); building it returns or raises.
run_persona_generation_start(j, outcome) ==
    /\ task[j].kind = "persona" /\ task[j].pc = "queued"
    /\ LET req == task[j].req
           raises == req.description # "" /\ req.custom /\ outcome.kind = "raise"
           writes == IF raises
                     THEN <<Preparing, Configuring, ErrorOccurred(outcome.msg)>>
                     ELSE PersonaStartWrites(req) IN
        /\ generation_jobs' = update_job_calls(generation_jobs, j, writes)
        /\ task' = [task EXCEPT ![j] =
                      IF raises THEN Done("persona", Some(outcome))
                      ELSE IF req.description = "" THEN Done("persona", None)
                      ELSE Task("persona", "generate", req, 0, 0, None)]
        /\ written' = [written EXCEPT ![j] = writes]
        /\ generator' = IF req.description # "" /\ req.custom /\ ~raises
                        THEN "<model>" ELSE generator
    /\ UNCHANGED <<issued, now, simulation_sessions, job_call, session_call, threads,
                   thread_statuses, background, eval_context,
                   session_lock, status_lock, callers>>

\* server.py:296-379: persona_manager.generate returns or raises, and the task
\* runs to its end.
run_persona_generation_resume(j, outcome) ==
    /\ task[j].kind = "persona" /\ task[j].pc = "generate"
    /\ LET req == task[j].req
           writes == IF outcome.kind = "raise"
                     THEN PersonaRaiseWrites(outcome)
                     ELSE PersonaReturnWrites(req, outcome.n, now) IN
        /\ generation_jobs' = update_job_calls(generation_jobs, j, writes)
        /\ task' = [task EXCEPT ![j] =
                      Done("persona",
                           IF outcome.kind = "raise" THEN Some(outcome) ELSE None)]
        /\ written' = [written EXCEPT ![j] = writes]
    /\ UNCHANGED <<issued, now, simulation_sessions, job_call, session_call, threads,
                   thread_statuses, background, eval_context,
                   generator, session_lock, status_lock, callers>>

\* server.py:692-709
generate_goal_async(req) ==
    /\ JobIds \ issued # {}
    /\ LET job_id == uuid4(JobIds, issued)
           writes == <<Queued>> IN
        /\ generation_jobs' =
             update_job_calls(create_job(generation_jobs, job_id, now), job_id, writes)
        /\ issued' = issued \cup {job_id}
        /\ task' = [task EXCEPT ![job_id] = Task("goal", "queued", req, 0, 0, None)]
        /\ written' = [written EXCEPT ![job_id] = writes]
    /\ UNCHANGED <<now, simulation_sessions, job_call, session_call, threads,
                   thread_statuses, background, eval_context,
                   generator, session_lock, status_lock, callers>>

\* server.py:711-754: from the start of the task to its first await,
\* storage.get_product when the request names a product, goal_manager.generate
\* otherwise.
generate_goal_background_start(j) ==
    /\ task[j].kind = "goal" /\ task[j].pc = "queued"
    /\ LET req == task[j].req
           lookup == req.product_id # None
           writes == IF lookup THEN <<LoadingProduct>>
                     ELSE <<LoadingProduct>> \o GoalContextWrites IN
        /\ generation_jobs' = update_job_calls(generation_jobs, j, writes)
        /\ task' = [task EXCEPT ![j] =
                      Task("goal", IF lookup THEN "get_product" ELSE "generate",
                           req, 0, 0, None)]
        /\ written' = [written EXCEPT ![j] = writes]
    /\ UNCHANGED <<issued, now, simulation_sessions, job_call, session_call, threads,
                   thread_statuses, background, eval_context,
                   generator, session_lock, status_lock, callers>>

\* server.py:721-754: storage.get_product returns (a product or None) or raises.
generate_goal_background_product(j, outcome) ==
    /\ task[j].kind = "goal" /\ task[j].pc = "get_product"
    /\ LET req == task[j].req
           writes == IF outcome.kind = "raise"
                     THEN <<GenerationFailed(outcome.msg)>>
                     ELSE GoalContextWrites IN
        /\ generation_jobs' = update_job_calls(generation_jobs, j, writes)
        /\ task' = [task EXCEPT ![j] =
                      IF outcome.kind = "raise" THEN Done("goal", Some(outcome))
                      ELSE Task("goal", "generate", req, 0, 0, None)]
        /\ written' = [written EXCEPT ![j] = writes]
    /\ UNCHANGED <<issued, now, simulation_sessions, job_call, session_call, threads,
                   thread_statuses, background, eval_context,
                   generator, session_lock, status_lock, callers>>

\* server.py:747-774: goal_manager.generate returns n goals or raises; with
\* goals to save the task suspends at the first storage.save_goal.
generate_goal_background_generated(j, outcome) ==
    /\ task[j].kind = "goal" /\ task[j].pc = "generate"
    /\ LET req == task[j].req
           writes == IF outcome.kind = "raise" THEN <<GenerationFailed(outcome.msg)>>
                     ELSE IF outcome.n = 0 THEN <<NoGoals>>
                     ELSE <<>> IN
        /\ generation_jobs' = update_job_calls(generation_jobs, j, writes)
        /\ task' = [task EXCEPT ![j] =
                      IF outcome.kind = "raise" THEN Done("goal", Some(outcome))
                      ELSE IF outcome.n = 0 THEN Done("goal", None)
                      ELSE Task("goal", "save_goal", req, outcome.n, 0, None)]
        /\ written' = [written EXCEPT ![j] = writes]
    /\ UNCHANGED <<issued, now, simulation_sessions, job_call, session_call, threads,
                   thread_statuses, background, eval_context,
                   generator, session_lock, status_lock, callers>>

\* server.py:761-798: one storage.save_goal returns or raises; after the last
\* goal is saved the task completes the job.
generate_goal_background_saved(j, outcome) ==
    /\ task[j].kind = "goal" /\ task[j].pc = "save_goal"
    /\ LET t == task[j]
           last == t.saved + 1 = t.goals
           writes == IF outcome.kind = "raise" THEN <<GenerationFailed(outcome.msg)>>
                     ELSE IF last THEN <<GoalCompleted(t.goals)>>
                     ELSE <<>> IN
        /\ generation_jobs' = update_job_calls(generation_jobs, j, writes)
        /\ task' = [task EXCEPT ![j] =
                      IF outcome.kind = "raise" THEN Done("goal", Some(outcome))
                      ELSE IF last THEN Done("goal", None)
                      ELSE [t EXCEPT !.saved = t.saved + 1]]
        /\ written' = [written EXCEPT ![j] = writes]
    /\ UNCHANGED <<issued, now, simulation_sessions, job_call, session_call, threads,
                   thread_statuses, background, eval_context,
                   generator, session_lock, status_lock, callers>>

\* Time passes.
Tick ==
    /\ now < MaxTime
    /\ now' = now + 1
    /\ UNCHANGED <<generation_jobs, issued, task, written, simulation_sessions,
                   job_call, session_call, threads, thread_statuses, background, eval_context,
                   generator, session_lock, status_lock, callers>>

\* The outcomes of persona_manager.generate and goal_manager.generate.
GenerateOutcomes == {Returned(n) : n \in 0 .. MaxItems} \cup Exceptions

\* The outcomes of create_generator_config and the generator's constructor.
ConfigOutcomes == {Returned(1), Raised("Exception", "model unavailable")}

\* The outcomes of storage.get_product and storage.save_goal.
StorageOutcomes == {Returned(1)} \cup Exceptions

\* The async endpoints and the background tasks they start.
NextServer ==
    \/ \E req \in PersonaRequests : generate_persona_async(req)
    \/ \E j \in JobIds, outcome \in ConfigOutcomes : run_persona_generation_start(j, outcome)
    \/ \E j \in JobIds, outcome \in GenerateOutcomes : run_persona_generation_resume(j, outcome)
    \/ \E req \in GoalRequests : generate_goal_async(req)
    \/ \E j \in JobIds : generate_goal_background_start(j)
    \/ \E j \in JobIds, outcome \in StorageOutcomes : generate_goal_background_product(j, outcome)
    \/ \E j \in JobIds, outcome \in GenerateOutcomes : generate_goal_background_generated(j, outcome)
    \/ \E j \in JobIds, outcome \in StorageOutcomes : generate_goal_background_saved(j, outcome)

Next ==
    \/ NextServer
    \/ Tick

Spec == Init /\ [][Next]_vars


(* ------------------------ simulation_tracker.py ------------------------ *)

\* datetime.isoformat(): the timestamp as text.
isoformat(t) == [iso |-> t]

\* simulation_tracker.py:10-28; creating an id again replaces its session.
create_simulation_session(reg, simulation_id, persona_id, goal_id, max_turns, t) ==
    LET session ==
          [ simulation_id |-> simulation_id,
            persona_id    |-> persona_id,
            goal_id       |-> goal_id,
            max_turns     |-> max_turns,
            status        |-> "running",
            current_turn  |-> 0,
            trajectory    |-> <<>>,
            started_at    |-> isoformat(t),
            completed_at  |-> None,
            error         |-> None,
            goal_achieved |-> FALSE,
            should_stop   |-> FALSE ]
    IN  [k \in DOMAIN reg \cup {simulation_id} |->
            IF k = simulation_id THEN session ELSE reg[k]]

\* The keyword arguments of update_simulation_session, None when not given.
SessionUpdate(status, current_turn, new_messages, goal_achieved, error) ==
    [ status        |-> status,
      current_turn  |-> current_turn,
      new_messages  |-> new_messages,
      goal_achieved |-> goal_achieved,
      error         |-> error ]

\* Python truthiness of an optional string: given and not empty.
Truthy(opt) == opt # None /\ opt[1] # ""

\* Python truthiness of an optional list: given and not empty.
TruthyList(opt) == opt # None /\ opt[1] # <<>>

\* simulation_tracker.py:45-57: the session after the update.
UpdatedSession(session, u, t) ==
    LET s1 == IF Truthy(u.status) THEN [session EXCEPT !.status = u.status[1]]
              ELSE session
        s2 == IF u.current_turn # None
              THEN [s1 EXCEPT !.current_turn = u.current_turn[1]] ELSE s1
        s3 == IF TruthyList(u.new_messages)
              THEN [s2 EXCEPT !.trajectory = @ \o u.new_messages[1]] ELSE s2
        s4 == IF u.goal_achieved # None
              THEN [s3 EXCEPT !.goal_achieved = u.goal_achieved[1]] ELSE s3
        s5 == IF Truthy(u.error) THEN [s4 EXCEPT !.error = u.error] ELSE s4
    IN  IF u.status \in {Some("completed"), Some("failed"), Some("stopped")}
        THEN [s5 EXCEPT !.completed_at = Some(isoformat(t))]
        ELSE s5

\* simulation_tracker.py:30-57
update_simulation_session(reg, simulation_id, u, t) ==
    IF simulation_id \notin DOMAIN reg
    THEN reg
    ELSE [reg EXCEPT ![simulation_id] = UpdatedSession(@, u, t)]

\* simulation_tracker.py:59-62
get_simulation_session(reg, simulation_id) ==
    IF simulation_id \in DOMAIN reg THEN Some(reg[simulation_id]) ELSE None

\* simulation_tracker.py:64-70: the registry after the call, and the value
\* the call returns.
stop_simulation_toggle(reg, simulation_id) ==
    IF simulation_id \in DOMAIN reg
    THEN [sessions |-> [reg EXCEPT ![simulation_id].should_stop = ~@], ret |-> TRUE]
    ELSE [sessions |-> reg, ret |-> FALSE]

stop_simulation(reg, simulation_id) ==
    IF simulation_id \in DOMAIN reg
    THEN [sessions |-> [reg EXCEPT ![simulation_id].should_stop = TRUE], ret |-> TRUE]
    ELSE [sessions |-> reg, ret |-> FALSE]

\* simulation_tracker.py:72-76
should_stop_simulation(reg, simulation_id) ==
    IF simulation_id \in DOMAIN reg THEN reg[simulation_id].should_stop ELSE FALSE

\* simulation_tracker.py:78-81: the sessions of the registry (their order in
\* the list is the order of insertion, which the registry here does not keep).
list_simulation_sessions(reg) == {reg[k] : k \in DOMAIN reg}

\* A sweep by the age of the session, completed or not.
cleanup_old_sessions_by_start(reg, t, max_age_hours) ==
    LET cutoff == isoformat(t - max_age_hours * 3600)
        to_remove == {k \in DOMAIN reg : reg[k].started_at.iso < cutoff.iso}
    IN  [k \in DOMAIN reg \ to_remove |-> reg[k]]

\* simulation_tracker.py:87-95.  timedelta(hours=h) is h * 3600 clock ticks of
\* one second; the < of two isoformat texts of UTC datetimes orders them as
\* the datetimes.
cleanup_old_sessions(reg, t, max_age_hours) ==
    LET timedelta(hours) == hours * 3600
        IsoLess(a, b) == a.iso < b.iso
        cutoff == isoformat(t - timedelta(max_age_hours))
        to_remove == {k \in DOMAIN reg :
                         /\ reg[k].completed_at # None
                         /\ IsoLess(reg[k].completed_at[1], cutoff)}
    IN  [k \in DOMAIN reg \ to_remove |-> reg[k]]

(* ------------------------------ messages ------------------------------- *)

\* A message of a thread, as the thread store returns it: a dict with a type
\* and, when additional_kwargs is present, the annotations in it.
Message(type, additional_kwargs) ==
    [type |-> type, additional_kwargs |-> additional_kwargs]

\* The additional_kwargs of a message: a dict whose stop key may be missing.
AdditionalKwargs(stop) == [stop |-> stop]

(* ----------------------- rewards: Python floats ------------------------ *)

\* A reward is a JSON number, held as a Python float (IEEE 754 binary64): a
\* sign, and a significand of Precision bits, most significant first, that
\* counts units of 2^exp.  A number other than zero has a leading 1; zero has
\* one representation.  The rewards stay far from overflow, underflow and NaN.
Precision == 53

Zeros(n) == <<>> \o [i \in 1 .. n |-> 0]

Float(sign, exp, mant) == [sign |-> sign, exp |-> exp, mant |-> mant]

Zero == Float(1, 0, Zeros(Precision))

\* The float that float.hex() prints as (-)0x1.<13 digits>p<p>; a hexadecimal
\* digit is four bits of the significand.
Double(sign, digits, p) ==
    LET Nibble(d) == <<(d \div 8) % 2, (d \div 4) % 2, (d \div 2) % 2, d % 2>>
        nibbles == [i \in 1 .. 4 * Len(digits) |->
                       Nibble(digits[((i - 1) \div 4) + 1])[((i - 1) % 4) + 1]]
    IN  Float(sign, p - (Precision - 1), <<1>> \o nibbles)

\* a + b of two bit strings of one length, one bit longer.  A position takes
\* a carry when a lower position produces one and every position between
\* passes it on.
AddBits(a, b) ==
    LET Carry(i) == \E j \in i + 1 .. Len(a) :
                       /\ a[j] = 1 /\ b[j] = 1
                       /\ \A k \in i + 1 .. j - 1 : a[k] + b[k] = 1
    IN  <<IF Carry(0) THEN 1 ELSE 0>>
           \o [i \in 1 .. Len(a) |-> (a[i] + b[i] + (IF Carry(i) THEN 1 ELSE 0)) % 2]

\* a - b of two bit strings of one length, a >= b.  A position lends to the
\* lower positions when one of them needs it and every position between
\* passes the request on.
SubBits(a, b) ==
    LET Borrow(i) == \E j \in i + 1 .. Len(a) :
                        /\ a[j] = 0 /\ b[j] = 1
                        /\ \A k \in i + 1 .. j - 1 : a[k] = b[k]
    IN  <<>> \o [i \in 1 .. Len(a) |->
                    (a[i] - b[i] - (IF Borrow(i) THEN 1 ELSE 0) + 2) % 2]

\* The float nearest to bits * 2^exp, ties to the even significand.
Round(sign, bits, exp) ==
    LET first == IF \A i \in 1 .. Len(bits) : bits[i] = 0 THEN Len(bits) + 1
                 ELSE CHOOSE i \in 1 .. Len(bits) :
                         bits[i] = 1 /\ \A j \in 1 .. i - 1 : bits[j] = 0
        s == SubSeq(bits, first, Len(bits))
        n == Len(s)
    IN  IF n = 0 THEN Zero
        ELSE IF n <= Precision
        THEN Float(sign, exp - (Precision - n), s \o Zeros(Precision - n))
        ELSE LET kept == SubSeq(s, 1, Precision)
                 rest == SubSeq(s, Precision + 1, n)
                 up == /\ rest[1] = 1
                       /\ \/ \E i \in 2 .. Len(rest) : rest[i] = 1
                          \/ kept[Precision] = 1
                 inc == IF up THEN AddBits(kept, Zeros(Precision - 1) \o <<1>>)
                        ELSE <<0>> \o kept
             IN  IF inc[1] = 1
                 THEN Float(sign, exp + (n - Precision) + 1, SubSeq(inc, 1, Precision))
                 ELSE Float(sign, exp + (n - Precision), Tail(inc))

IsZero(x) == x.mant = Zeros(Precision)

\* x + y
float_add(x, y) ==
    IF IsZero(x) THEN y
    ELSE IF IsZero(y) THEN x
    ELSE LET e == IF x.exp < y.exp THEN x.exp ELSE y.exp
             xs == x.mant \o Zeros(x.exp - e)
             ys == y.mant \o Zeros(y.exp - e)
             n == IF Len(xs) > Len(ys) THEN Len(xs) ELSE Len(ys)
             a == Zeros(n - Len(xs)) \o xs
             b == Zeros(n - Len(ys)) \o ys
             less == \E i \in 1 .. n : a[i] < b[i] /\ \A j \in 1 .. i - 1 : a[j] = b[j]
         IN  IF x.sign = y.sign THEN Round(x.sign, AddBits(a, b), e)
             ELSE IF less THEN Round(y.sign, SubBits(b, a), e)
             ELSE Round(x.sign, SubBits(a, b), e)

\* abs(x)
float_abs(x) == [x EXCEPT !.sign = 1]

\* x > 0 and x < 0
Positive(x) == ~IsZero(x) /\ x.sign = 1
Negative(x) == ~IsZero(x) /\ x.sign = -1

(* ---------------------------- thread store ----------------------------- *)

\* One checkpoint of a thread's history: a dict whose values, when present,
\* hold the messages.
Checkpoint(values) == [values |-> values]
Values(messages) == [messages |-> messages]

\* What get_thread_history returns: a list of checkpoints, or one checkpoint.
HistoryList(checkpoints) == [kind |-> "list", checkpoints |-> checkpoints]
HistoryDict(checkpoint) == [kind |-> "dict", checkpoints |-> <<checkpoint>>]

\* A thread of the store.
Thread(thread_id, metadata, history) ==
    [thread_id |-> thread_id, metadata |-> metadata, history |-> history]

\* server.py:1138-1148: the metadata run_simulation gives the thread it creates.
RunMetadata ==
    [ owner            |-> "testing-ai",
      persona_id       |-> "persona",
      persona_name     |-> "Ann",
      goal_id          |-> "goal",
      goal_name        |-> "Buy a ticket",
      reasoning_model  |-> "gpt-5",
      reasoning_effort |-> "medium",
      max_turns        |-> 2,
      started_at       |-> isoformat(0) ]

\* server.py:1216: the metadata key get_simulation_status searches by.
RunIdMetadata(simulation_id) == [simulation_run_id |-> simulation_id]

\* dict.get(key): None when the key is missing.
DictGet(dict, key) == IF key \in DOMAIN dict THEN Some(dict[key]) ELSE None

\* threads.search(metadata={"simulation_run_id": simulation_id}, limit=1):
\* what the store may answer, no thread or any one thread that carries the id.
search(store, simulation_id) ==
    LET found == {t \in DOMAIN store :
                    DictGet(store[t].metadata, "simulation_run_id") = Some(simulation_id)}
    IN  IF found = {} THEN {None} ELSE {Some(store[t]) : t \in found}

\* server.py:1232-1241: the messages of the last checkpoint.
ExtractMessagesFirst(history) ==
    IF history.kind = "list"
    THEN IF history.checkpoints # <<>>
         THEN LET first_checkpoint == history.checkpoints[1] IN
                 IF first_checkpoint.values # None
                 THEN first_checkpoint.values[1].messages
                 ELSE <<>>
         ELSE <<>>
    ELSE IF history.checkpoints[1].values # None
         THEN history.checkpoints[1].values[1].messages
         ELSE <<>>

ExtractMessages(history) ==
    IF history.kind = "list"
    THEN IF history.checkpoints # <<>>
         THEN LET last_checkpoint == history.checkpoints[Len(history.checkpoints)] IN
                 IF last_checkpoint.values # None
                 THEN last_checkpoint.values[1].messages
                 ELSE <<>>
         ELSE <<>>
    ELSE IF history.checkpoints[1].values # None
         THEN history.checkpoints[1].values[1].messages
         ELSE <<>>

\* msg.get("additional_kwargs", {}).get("stop", False)
StopFlag(msg) ==
    IF msg.additional_kwargs = None THEN FALSE
    ELSE IF msg.additional_kwargs[1].stop = None THEN FALSE
    ELSE msg.additional_kwargs[1].stop[1]

\* server.py:1246-1251
should_stop_any(messages) == \E i \in 1 .. Len(messages) : StopFlag(messages[i])

should_stop(messages) ==
    IF messages # <<>> THEN StopFlag(messages[Len(messages)]) ELSE FALSE

\* server.py:1247-1252
last_message_is_human(messages) ==
    IF messages # <<>> THEN messages[Len(messages)].type = "human" ELSE FALSE

\* server.py:1259-1260
human_count_all(messages) == Len(messages)

human_count(messages) ==
    Cardinality({i \in 1 .. Len(messages) : messages[i].type = "human"})

\* server.py:1274
should_continue_polling_until_stop(messages) == ~should_stop(messages)

should_continue_polling(messages) ==
    ~should_stop(messages) \/ last_message_is_human(messages)

\* server.py:1262-1275: the body of the answer for a thread whose history
\* and metadata were fetched.
SimulationStatus(simulation_id, thread) ==
    LET messages == ExtractMessages(thread.history)
        metadata == thread.metadata
    IN  [ simulation_id |-> simulation_id,
          thread_id     |-> thread.thread_id,
          persona_id    |-> DictGet(metadata, "persona_id"),
          persona_name  |-> DictGet(metadata, "persona_name"),
          goal_id       |-> DictGet(metadata, "goal_id"),
          goal_name     |-> DictGet(metadata, "goal_name"),
          max_turns     |-> IF "max_turns" \in DOMAIN metadata THEN metadata.max_turns ELSE 5,
          status        |-> IF should_stop(messages) THEN "completed" ELSE "running",
          current_turn  |-> human_count(messages),
          trajectory    |-> messages,
          started_at    |-> DictGet(metadata, "started_at"),
          should_continue_polling |-> should_continue_polling(messages) ]

\* str(e) of the exception a failing call of the thread store raises.
StoreError == "connection refused"

\* The call of the thread store that fails during one get_simulation_status.
Failing == {"none", "search", "history", "get"}

\* server.py:1226-1278: the answer once the thread is known; fetching the
\* history or the metadata may raise.
ThreadStatusResponseSwallowed(simulation_id, thread, failing) ==
    IF failing \in {"history", "get"}
    THEN Response(200, <<>>,
                  Some(SimulationStatus(simulation_id,
                                        [thread EXCEPT !.history = HistoryList(<<>>)])))
    ELSE Response(200, <<>>, Some(SimulationStatus(simulation_id, thread)))

ThreadStatusResponse(simulation_id, thread, failing) ==
    IF failing \in {"history", "get"}
    THEN Response(500, <<"Failed to get simulation status: ", StoreError>>, None)
    ELSE Response(200, <<>>, Some(SimulationStatus(simulation_id, thread)))

\* server.py:1209-1278: the answer, when the store's search gives `found` and
\* the store call `failing` raises.  The thread is the one the session names,
\* if it names one (the registry never sets a thread_id), else the one the
\* search finds.
SimulationStatusResponse(session, store, simulation_id, found, failing) ==
    IF session # None /\ "thread_id" \in DOMAIN session[1]
    THEN IF session[1].thread_id \in DOMAIN store
         THEN ThreadStatusResponse(simulation_id, store[session[1].thread_id], failing)
         ELSE Response(500, <<"Failed to get simulation status: ", StoreError>>, None)
    ELSE IF failing = "search"
    THEN Response(404, <<"Simulation not found: ", StoreError>>, None)
    ELSE IF found = None
    THEN Response(404, <<"Simulation not found: ",
                         "404: Thread not found for simulation">>, None)
    ELSE ThreadStatusResponse(simulation_id, found[1], failing)

(* --------------------------- thread_status.py -------------------------- *)

\* One status dict of thread_statuses; a key that is not in the dict is None.
ThreadStatus(status, stopped_reason, current_turn, max_turns) ==
    [ status         |-> status,
      stopped_reason |-> stopped_reason,
      current_turn   |-> current_turn,
      max_turns      |-> max_turns ]

\* A set_thread_status that stores a new dict of what it was given.
set_thread_status_replace(statuses, thread_id, status, stopped_reason, current_turn, max_turns) ==
    [t \in DOMAIN statuses \cup {thread_id} |->
        IF t = thread_id
        THEN ThreadStatus(status, stopped_reason, current_turn, max_turns)
        ELSE statuses[t]]

\* thread_status.py:15-42
set_thread_status(statuses, thread_id, status, stopped_reason, current_turn, max_turns) ==
    LET old == IF thread_id \in DOMAIN statuses THEN statuses[thread_id]
               ELSE ThreadStatus(status, None, None, None)
        entry == ThreadStatus(
                    status,
                    IF TruthyList(stopped_reason) THEN stopped_reason ELSE old.stopped_reason,
                    IF current_turn # None THEN current_turn ELSE old.current_turn,
                    IF max_turns # None THEN max_turns ELSE old.max_turns)
    IN  [t \in DOMAIN statuses \cup {thread_id} |->
            IF t = thread_id THEN entry ELSE statuses[t]]

\* thread_status.py:45-52
get_thread_status(statuses, thread_id) ==
    IF thread_id \in DOMAIN statuses THEN statuses[thread_id]
    ELSE ThreadStatus("unknown", None, None, None)

(* ------------------------ server.py: evaluation ------------------------ *)

\* server.py:1442: msg.get("additional_kwargs", {}).get("reward", 0)
Reward(msg) ==
    IF msg.additional_kwargs = None THEN Zero
    ELSE IF "reward" \notin DOMAIN msg.additional_kwargs[1] THEN Zero
    ELSE msg.additional_kwargs[1].reward

\* The loop with penalties that add up the negative rewards as they are.
RECURSIVE RewardTotalsSigned(_)
RewardTotalsSigned(messages) ==
    IF messages = <<>>
    THEN [total_reward |-> Zero, positive_rewards |-> Zero, negative_penalties |-> Zero]
    ELSE LET n == Len(messages)
             sums == RewardTotalsSigned(SubSeq(messages, 1, n - 1))
             reward == Reward(messages[n])
         IN  [ total_reward |-> float_add(sums.total_reward, reward),
               positive_rewards |->
                  IF Positive(reward) THEN float_add(sums.positive_rewards, reward)
                  ELSE sums.positive_rewards,
               negative_penalties |->
                  IF Negative(reward) THEN float_add(sums.negative_penalties, reward)
                  ELSE sums.negative_penalties ]

\* server.py:1435-1447: the sums after the loop has run over the messages,
\* first to last.
RECURSIVE RewardTotals(_)
RewardTotals(messages) ==
    IF messages = <<>>
    THEN [total_reward |-> Zero, positive_rewards |-> Zero, negative_penalties |-> Zero]
    ELSE LET n == Len(messages)
             sums == RewardTotals(SubSeq(messages, 1, n - 1))
             reward == Reward(messages[n])
         IN  [ total_reward |-> float_add(sums.total_reward, reward),
               positive_rewards |->
                  IF Positive(reward) THEN float_add(sums.positive_rewards, reward)
                  ELSE sums.positive_rewards,
               negative_penalties |->
                  IF Negative(reward)
                  THEN float_add(sums.negative_penalties, float_abs(reward))
                  ELSE sums.negative_penalties ]

\* server.py:1455-1461
role_mapping ==
    [ human    |-> "human",
      ai       |-> "ai",
      tool     |-> "tool",
      system   |-> "system",
      function |-> "function" ]

\* server.py:1449-1473: the trajectory in dataset format, the role of an entry
\* being role_mapping.get(msg_type, msg_type); the additional_kwargs of a
\* message without them are the empty dict.  The text of a message is not
\* modelled.
Trajectory(messages) ==
    [i \in 1 .. Len(messages) |->
        [ role              |-> IF messages[i].type \in DOMAIN role_mapping
                                THEN role_mapping[messages[i].type]
                                ELSE messages[i].type,
          additional_kwargs |-> IF messages[i].additional_kwargs = None
                                THEN AdditionalKwargs(None)
                                ELSE messages[i].additional_kwargs[1] ]]

\* server.py:1476-1483: the context handed to the evaluators.
EvalContext(messages, metadata) ==
    LET sums == RewardTotals(messages) IN
        [ trajectory         |-> Trajectory(messages),
          total_reward       |-> sums.total_reward,
          positive_rewards   |-> sums.positive_rewards,
          negative_penalties |-> sums.negative_penalties,
          goal    |-> IF "goal_name" \in DOMAIN metadata THEN metadata.goal_name
                      ELSE "Unknown",
          persona |-> IF "persona_name" \in DOMAIN metadata THEN metadata.persona_name
                      ELSE "Unknown" ]

\* server.py:1554-1571: the EvaluationResult of one evaluator that returned or
\* raised; the evaluation id and the timestamps are left out.
EvaluationResult(thread_id, context, message_count, raised) ==
    [ thread_id  |-> thread_id,
      status     |-> "completed",
      evaluators |-> <<"helpfulness">>,
      results    |->
         [ total_reward       |-> context.total_reward,
           positive_rewards   |-> context.positive_rewards,
           negative_penalties |-> context.negative_penalties,
           evaluations        |->
              <<IF raised
                THEN [key |-> "helpfulness", score |-> FALSE,
                      comment |-> <<"Evaluator failed: ", StoreError>>]
                ELSE [key |-> "helpfulness", score |-> TRUE, comment |-> <<>>]>>,
           metadata           |-> [ goal          |-> context.goal,
                                    persona       |-> context.persona,
                                    message_count |-> message_count ] ] ]

\* server.py:1405-1589: the answer of run_evaluation for a thread of the store,
\* given the context its messages and metadata make.  failing names what
\* fails during the call: nothing ("none"), a call of the thread store
\* ("history", "get"), the creation of the evaluators, none being valid
\* ("evaluators"), the evaluator, or the insert into the evaluations collection.
EvaluationResponse(thread, context, failing) ==
    LET messages == ExtractMessages(thread.history) IN
        IF failing = "history"
        THEN Response(500, <<"Evaluation failed: ", StoreError>>, None)
        ELSE IF messages = <<>>
        THEN Response(404, <<"No messages found in thread">>, None)
        ELSE IF failing = "get"
        THEN Response(500, <<"Evaluation failed: ", StoreError>>, None)
        ELSE IF failing = "evaluators"
        THEN Response(400, <<"No valid evaluators configured">>, None)
        ELSE IF failing = "insert"
        THEN Response(500, <<"Evaluation failed: ", StoreError>>, None)
        ELSE Response(200, <<>>,
                      Some(EvaluationResult(thread.thread_id, context,
                                            Len(messages), failing = "evaluator")))

(* ------------------------ generation status ---------------------------- *)

\* generation_jobs.py:23-34
to_dict(job) ==
    [ id              |-> job.id,
      status          |-> job.status,
      stage           |-> job.stage,
      progress        |-> job.progress,
      error           |-> job.error,
      result          |-> job.result,
      started_at      |-> isoformat(job.started_at),
      completed_at    |-> IF job.completed_at # None
                          THEN Some(isoformat(job.completed_at[1])) ELSE None,
      generation_time |-> job.generation_time ]

\* server.py:241-250
get_generation_status_default(reg, job_id) ==
    LET job == get_job(reg, job_id) IN
        IF job = None
        THEN Response(200, <<>>, Some(to_dict(GenerationJob(job_id, 0))))
        ELSE Response(200, <<>>, Some(to_dict(job[1])))

get_generation_status(reg, job_id) ==
    LET job == get_job(reg, job_id) IN
        IF job = None
        THEN Response(404, <<"Job not found">>, None)
        ELSE Response(200, <<>>, Some(to_dict(job[1])))

(* ----------------------- direct registry calls ------------------------- *)

\* generation_jobs.py:39-44, called directly.
create_job_call ==
    /\ RegIds \ issued # {}
    /\ LET job_id == uuid4(RegIds, issued) IN
        /\ generation_jobs' = create_job(generation_jobs, job_id, now)
        /\ issued' = issued \cup {job_id}
        /\ job_call' = Call("create_job", job_id, 0, None)
    /\ UNCHANGED <<task, now, written, simulation_sessions, session_call, threads,
                   thread_statuses, background, eval_context,
                   generator, session_lock, status_lock, callers>>

\* generation_jobs.py:50-55, called directly; get_job is read afterwards.
update_job_call(job_id, kwargs) ==
    /\ generation_jobs' = update_job(generation_jobs, job_id, kwargs)
    /\ job_call' = Call("update_job", job_id, 0, get_job(generation_jobs', job_id))
    /\ UNCHANGED <<issued, task, now, written, simulation_sessions, session_call, threads,
                   thread_statuses, background, eval_context,
                   generator, session_lock, status_lock, callers>>

\* generation_jobs.py:57-68, called with the clock at now.
cleanup_old_jobs_call(max_age_seconds) ==
    /\ generation_jobs' = cleanup_old_jobs(generation_jobs, now, max_age_seconds)
    /\ job_call' = Call("cleanup_old_jobs", 0, max_age_seconds, None)
    /\ UNCHANGED <<issued, task, now, written, simulation_sessions, session_call, threads,
                   thread_statuses, background, eval_context,
                   generator, session_lock, status_lock, callers>>

\* simulation_tracker.py:10-28, called directly.
create_simulation_session_call(simulation_id, max_turns) ==
    /\ simulation_sessions' =
         create_simulation_session(simulation_sessions, simulation_id,
                                   "persona", "goal", max_turns, now)
    /\ session_call' = Call("create_simulation_session", simulation_id, 0, None)
    /\ UNCHANGED <<generation_jobs, issued, task, now, written, job_call, threads,
                   thread_statuses, background, eval_context,
                   generator, session_lock, status_lock, callers>>

\* simulation_tracker.py:30-57, called directly; get_simulation_session is
\* read afterwards.
update_simulation_session_call(simulation_id, u) ==
    /\ simulation_sessions' =
         update_simulation_session(simulation_sessions, simulation_id, u, now)
    /\ session_call' = Call("update_simulation_session", simulation_id, 0,
                            get_simulation_session(simulation_sessions', simulation_id))
    /\ UNCHANGED <<generation_jobs, issued, task, now, written, job_call, threads,
                   thread_statuses, background, eval_context,
                   generator, session_lock, status_lock, callers>>

\* simulation_tracker.py:64-70, called directly.
stop_simulation_call(simulation_id) ==
    LET r == stop_simulation(simulation_sessions, simulation_id) IN
        /\ simulation_sessions' = r.sessions
        /\ session_call' = Call("stop_simulation", simulation_id, 0, Some(r.ret))
        /\ UNCHANGED <<generation_jobs, issued, task, now, written, job_call, threads,
                       thread_statuses, background, eval_context,
                       generator, session_lock, status_lock, callers>>

\* simulation_tracker.py:72-76, called directly.
should_stop_simulation_call(simulation_id) ==
    /\ session_call' = Call("should_stop_simulation", simulation_id, 0,
                            Some(should_stop_simulation(simulation_sessions, simulation_id)))
    /\ UNCHANGED <<generation_jobs, issued, task, now, written, simulation_sessions,
                   job_call, threads, thread_statuses, background, eval_context,
                   generator, session_lock, status_lock, callers>>

\* simulation_tracker.py:78-81, called directly.
list_simulation_sessions_call ==
    /\ session_call' = Call("list_simulation_sessions", 0, 0,
                            Some(list_simulation_sessions(simulation_sessions)))
    /\ UNCHANGED <<generation_jobs, issued, task, now, written, simulation_sessions,
                   job_call, threads, thread_statuses, background, eval_context,
                   generator, session_lock, status_lock, callers>>

\* simulation_tracker.py:83-95, called with the clock at now.
cleanup_old_sessions_call(max_age_hours) ==
    /\ simulation_sessions' = cleanup_old_sessions(simulation_sessions, now, max_age_hours)
    /\ session_call' = Call("cleanup_old_sessions", 0, max_age_hours, None)
    /\ UNCHANGED <<generation_jobs, issued, task, now, written, job_call, threads,
                   thread_statuses, background, eval_context,
                   generator, session_lock, status_lock, callers>>

\* server.py:1280-1290: the handler has no await, so it runs as one step.
stop_simulation_endpoint(simulation_id) ==
    LET r == stop_simulation(simulation_sessions, simulation_id) IN
        /\ IF ~r.ret
           THEN /\ simulation_sessions' = r.sessions
                /\ session_call' =
                     Call("stop_simulation_endpoint", simulation_id, 0,
                          Some(Response(404, <<"Simulation not found">>, None)))
           ELSE /\ simulation_sessions' =
                     update_simulation_session(r.sessions, simulation_id,
                         SessionUpdate(Some("stopped"), None, None, None, None), now)
                /\ session_call' =
                     Call("stop_simulation_endpoint", simulation_id, 0,
                          Some(Response(200, <<>>,
                               Some([success |-> TRUE,
                                     message |-> "Simulation stop signal sent"]))))
        /\ UNCHANGED <<generation_jobs, issued, task, now, written, job_call, threads,
                       thread_statuses, background, eval_context,
                       generator, session_lock, status_lock, callers>>

\* server.py:241-250, one poll of a job.
get_generation_status_call(job_id) ==
    /\ job_call' = Call("get_generation_status", job_id, 0,
                        Some(get_generation_status(generation_jobs, job_id)))
    /\ UNCHANGED <<generation_jobs, issued, task, now, written, simulation_sessions,
                   session_call, threads, thread_statuses, background, eval_context,
                   generator, session_lock, status_lock, callers>>

\* server.py:1202-1278, one poll of a simulation.  Between its awaits the
\* handler keeps nothing but what it read, and it writes nothing.
get_simulation_status_marking(simulation_id, failing) ==
    /\ \E found \in search(threads, simulation_id) :
          /\ session_call' =
                Call("get_simulation_status", simulation_id, failing,
                     Some(SimulationStatusResponse(
                             get_simulation_session(simulation_sessions, simulation_id),
                             threads, simulation_id, found, failing)))
          /\ thread_statuses' =
                IF found # None /\ failing \in {"history", "get"}
                THEN set_thread_status(thread_statuses, found[1].thread_id, "failed",
                                       Some(<<"error: ", StoreError>>), None, None)
                ELSE thread_statuses
    /\ UNCHANGED <<generation_jobs, issued, task, now, written, simulation_sessions,
                   job_call, threads, background, eval_context,
                   generator, session_lock, status_lock, callers>>

get_simulation_status(simulation_id, failing) ==
    /\ \E found \in search(threads, simulation_id) :
          session_call' =
             Call("get_simulation_status", simulation_id, failing,
                  Some(SimulationStatusResponse(
                          get_simulation_session(simulation_sessions, simulation_id),
                          threads, simulation_id, found, failing)))
    /\ UNCHANGED <<generation_jobs, issued, task, now, written, simulation_sessions,
                   job_call, threads, thread_statuses, background, eval_context,
                   generator, session_lock, status_lock, callers>>

\* server.py:1358-1371, one read of the thread-status cache.
get_thread_status_endpoint(thread_id) ==
    /\ session_call' = Call("get_thread_status", thread_id, "none",
                            Some(Response(200, <<>>,
                                 Some(get_thread_status(thread_statuses, thread_id)))))
    /\ UNCHANGED <<generation_jobs, issued, task, now, written, simulation_sessions,
                   job_call, threads, thread_statuses, background, eval_context,
                   generator, session_lock, status_lock, callers>>

\* server.py:1095-1177 on a server whose simulation engine is initialized.
\* storage.get_persona and storage.get_goal find both ("found"), no persona,
\* no goal, or one of them raises; the goal found has two turns.
\* Up to set_thread_status the handler keeps only locals across its awaits;
\* the thread exists in the store once create_thread has returned.  Every
\* exception raised in the try block, the not-found HTTPException of line
\* 1129 included, is answered by the handler of line 1176.
run_simulation(lookup, max_turns, created) ==
    /\ Len(threads) < MaxThreads
    /\ LET thread_id == Len(threads) + 1
           turns_limit == IF max_turns # None /\ max_turns[1] # 0 THEN max_turns[1]
                          ELSE RunMetadata.max_turns IN
         IF lookup = "raise"
         THEN /\ session_call' = Call("run_simulation", 0, lookup,
                                      Some(Response(500, <<StoreError>>, None)))
              /\ UNCHANGED <<threads, thread_statuses, background,
                             generator, session_lock, status_lock, callers>>
         ELSE IF lookup \in {"no_persona", "no_goal"}
         THEN /\ session_call' = Call("run_simulation", 0, lookup,
                                      Some(Response(500, <<"404: Persona or goal not found">>,
                                                    None)))
              /\ UNCHANGED <<threads, thread_statuses, background,
                             generator, session_lock, status_lock, callers>>
         ELSE IF created.kind = "raise"
         THEN /\ session_call' = Call("run_simulation", 0, lookup,
                                      Some(Response(500, <<created.msg>>, None)))
              /\ UNCHANGED <<threads, thread_statuses, background,
                             generator, session_lock, status_lock, callers>>
         ELSE /\ threads' = Append(threads,
                                   Thread(thread_id,
                                          [RunMetadata EXCEPT !.max_turns = turns_limit,
                                                              !.started_at = isoformat(now)],
                                          HistoryList(<<>>)))
              /\ thread_statuses' =
                    set_thread_status(thread_statuses, thread_id, "running",
                                      None, Some(0), Some(turns_limit))
              /\ background' = [t \in DOMAIN background \cup {thread_id} |->
                                  IF t = thread_id THEN "queued" ELSE background[t]]
              /\ session_call' =
                    Call("run_simulation", thread_id, lookup,
                         Some(Response(200, <<>>,
                              Some([ thread_id        |-> thread_id,
                                     message          |-> "Simulation started",
                                     persona_id       |-> Some(RunMetadata.persona_id),
                                     goal_id          |-> Some(RunMetadata.goal_id),
                                     reasoning_model  |-> RunMetadata.reasoning_model,
                                     reasoning_effort |-> RunMetadata.reasoning_effort ]))))
    /\ UNCHANGED <<generation_jobs, issued, task, now, written, simulation_sessions,
                   job_call, eval_context,
                   generator, session_lock, status_lock, callers>>

\* server.py:1179-1192: the background task starts and awaits
\* simulation_engine.run_simulation_loop.
run_simulation_background_start(thread_id) ==
    /\ thread_id \in DOMAIN background
    /\ background[thread_id] = "queued"
    /\ background' = [background EXCEPT ![thread_id] = "run_simulation_loop"]
    /\ UNCHANGED <<generation_jobs, issued, task, now, written, simulation_sessions,
                   job_call, session_call, threads, thread_statuses, eval_context,
                   generator, session_lock, status_lock, callers>>

\* server.py:1185-1192: while the call is outstanding the engine writes the
\* conversation into the thread of the external store; whether it also puts
\* a simulation_run_id into the thread's metadata is the engine's choice.
run_simulation_loop_writes(thread_id, messages, stamps) ==
    /\ thread_id \in DOMAIN background
    /\ background[thread_id] = "run_simulation_loop"
    /\ Len(messages) > Len(ExtractMessages(threads[thread_id].history))
    /\ threads' =
         [threads EXCEPT ![thread_id] =
             Thread(thread_id,
                    IF stamps THEN threads[thread_id].metadata @@ RunIdMetadata(thread_id)
                    ELSE threads[thread_id].metadata,
                    HistoryList(<<Checkpoint(Some(Values(messages)))>>))]
    /\ UNCHANGED <<generation_jobs, issued, task, now, written, simulation_sessions,
                   job_call, session_call, thread_statuses, background, eval_context,
                   generator, session_lock, status_lock, callers>>

\* server.py:1194-1200: run_simulation_loop returns, which is logged, or it
\* raises, which is recorded in the thread-status cache.
run_simulation_background_resume(thread_id, outcome) ==
    /\ thread_id \in DOMAIN background
    /\ background[thread_id] = "run_simulation_loop"
    /\ background' = [background EXCEPT ![thread_id] = "done"]
    /\ thread_statuses' =
         IF outcome.kind = "raise"
         THEN set_thread_status(thread_statuses, thread_id, "failed",
                                Some(<<"error: ", outcome.msg>>), None, None)
         ELSE thread_statuses
    /\ UNCHANGED <<generation_jobs, issued, task, now, written, simulation_sessions,
                   job_call, session_call, threads, eval_context,
                   generator, session_lock, status_lock, callers>>

\* server.py:1391-1589 on a server whose simulation engine is initialized.
\* The handler reads the thread store and keeps only locals; the evaluators
\* are invoked once the thread's messages and metadata were fetched and an
\* evaluator was created.
run_evaluation(thread_id, failing) ==
    /\ thread_id \in DOMAIN threads
    /\ LET thread == threads[thread_id]
           messages == ExtractMessages(thread.history)
           context == EvalContext(messages, thread.metadata)
       IN  /\ session_call' = Call("run_evaluation", thread_id, failing,
                                   Some(EvaluationResponse(thread, context, failing)))
           /\ eval_context' =
                IF /\ failing \in {"none", "evaluator", "insert"}
                   /\ messages # <<>>
                THEN Some(context)
                ELSE eval_context
    /\ UNCHANGED <<generation_jobs, issued, task, now, written, simulation_sessions,
                   job_call, threads, thread_statuses, background,
                   generator, session_lock, status_lock, callers>>

(* ------------------- registry calls from threads ----------------------- *)

\* The functions of simulation_tracker.py and thread_status.py called from
\* threads.  A thread runs a call statement by statement: it reaches the with
\* statement (pc "with"), takes the lock, runs the statements of the body one
\* at a time, and leaves the with block (pc "release").  entered keeps the
\* registry as the thread found it when it took the lock, since the time.

\* The calls that take status_lock; every other call takes session_lock.
StatusCalls == {"set_thread_status", "get_thread_status", "delete_thread_status"}

\* A thread enters a function of one of the two modules with an id and the
\* other arguments, and reaches its with statement.
call(t, op, id, arg) ==
    /\ callers[t].pc = "idle"
    /\ callers' = [callers EXCEPT ![t] =
                      [NoCall EXCEPT !.op = op, !.id = id, !.arg = arg, !.pc = "with"]]
    /\ UNCHANGED <<generation_jobs, issued, task, now, written, simulation_sessions,
                   job_call, session_call, threads, thread_statuses, background,
                   eval_context, generator, session_lock, status_lock>>

\* A with statement that lets the thread in whoever holds the lock.
acquire_unlocked(t) ==
    /\ callers[t].pc = "with"
    /\ IF callers[t].op \in StatusCalls
       THEN status_lock' = Some(t) /\ UNCHANGED session_lock
       ELSE session_lock' = Some(t) /\ UNCHANGED status_lock
    /\ callers' = [callers EXCEPT ![t].pc = "body", ![t].since = now,
                                  ![t].entered = IF callers[t].op \in StatusCalls
                                                 THEN thread_statuses
                                                 ELSE simulation_sessions]
    /\ UNCHANGED <<generation_jobs, issued, task, now, written, simulation_sessions,
                   job_call, session_call, threads, thread_statuses, background,
                   eval_context, generator>>

\* with session_lock: (simulation_tracker.py:12, 39, 61, 66, 74, 80, 85) and
\* with status_lock: (thread_status.py:31, 51, 57): threading.Lock.acquire
\* blocks while another thread holds the lock.
acquire(t) ==
    /\ callers[t].pc = "with"
    /\ IF callers[t].op \in StatusCalls
       THEN status_lock = None /\ status_lock' = Some(t) /\ UNCHANGED session_lock
       ELSE session_lock = None /\ session_lock' = Some(t) /\ UNCHANGED status_lock
    /\ callers' = [callers EXCEPT ![t].pc = "body", ![t].since = now,
                                  ![t].entered = IF callers[t].op \in StatusCalls
                                                 THEN thread_statuses
                                                 ELSE simulation_sessions]
    /\ UNCHANGED <<generation_jobs, issued, task, now, written, simulation_sessions,
                   job_call, session_call, threads, thread_statuses, background,
                   eval_context, generator>>

\* One statement of the body of the with block the thread is in.  The result
\* names the registry and the cache after the statement, the statement the
\* thread is at next, and its local to_remove.
statement(t) ==
    LET c == callers[t]
        id == c.id
        arg == c.arg
        sessions == simulation_sessions
        statuses == thread_statuses
        After(pc, reg, cache, local) ==
            [pc |-> pc, sessions |-> reg, statuses |-> cache, local |-> local]
        Goto(pc) == After(pc, sessions, statuses, c.local)
        Session(pc, session) ==
            After(pc, [sessions EXCEPT ![id] = session], statuses, c.local)
        Status(pc, entry) ==
            After(pc, sessions, [statuses EXCEPT ![id] = entry], c.local)
        \* simulation_tracker.py:40-57
        update ==
            CASE c.pc = "body" ->
                   IF id \notin DOMAIN sessions THEN Goto("release") ELSE Goto("status")
              [] c.pc = "status" ->
                   IF Truthy(arg.status)
                   THEN Session("current_turn", [sessions[id] EXCEPT !.status = arg.status[1]])
                   ELSE Goto("current_turn")
              [] c.pc = "current_turn" ->
                   IF arg.current_turn # None
                   THEN Session("new_messages",
                                [sessions[id] EXCEPT !.current_turn = arg.current_turn[1]])
                   ELSE Goto("new_messages")
              [] c.pc = "new_messages" ->
                   IF TruthyList(arg.new_messages)
                   THEN Session("goal_achieved",
                                [sessions[id] EXCEPT !.trajectory = @ \o arg.new_messages[1]])
                   ELSE Goto("goal_achieved")
              [] c.pc = "goal_achieved" ->
                   IF arg.goal_achieved # None
                   THEN Session("error",
                                [sessions[id] EXCEPT !.goal_achieved = arg.goal_achieved[1]])
                   ELSE Goto("error")
              [] c.pc = "error" ->
                   IF Truthy(arg.error)
                   THEN Session("completed_at", [sessions[id] EXCEPT !.error = arg.error])
                   ELSE Goto("completed_at")
              [] c.pc = "completed_at" ->
                   IF arg.status \in {Some("completed"), Some("failed"), Some("stopped")}
                   THEN Session("release",
                                [sessions[id] EXCEPT !.completed_at = Some(isoformat(now))])
                   ELSE Goto("release")
        \* simulation_tracker.py:86-95: to_remove is collected, then the
        \* sessions in it are deleted one by one.
        cleanup ==
            IF c.pc = "body"
            THEN After("del", sessions, statuses,
                       DOMAIN sessions \ DOMAIN cleanup_old_sessions(sessions, now, arg))
            ELSE IF c.local = {} THEN Goto("release")
            ELSE LET sim_id == CHOOSE k \in c.local : \A other \in c.local : k <= other
                 IN  After("del", [k \in DOMAIN sessions \ {sim_id} |-> sessions[k]],
                           statuses, c.local \ {sim_id})
        \* thread_status.py:32-42
        set_status ==
            CASE c.pc = "body" ->
                   After("stopped_reason", sessions,
                         set_thread_status(statuses, id, arg.status, None, None, None),
                         c.local)
              [] c.pc = "stopped_reason" ->
                   IF TruthyList(arg.stopped_reason)
                   THEN Status("current_turn",
                               [statuses[id] EXCEPT !.stopped_reason = arg.stopped_reason])
                   ELSE Goto("current_turn")
              [] c.pc = "current_turn" ->
                   IF arg.current_turn # None
                   THEN Status("max_turns",
                               [statuses[id] EXCEPT !.current_turn = arg.current_turn])
                   ELSE Goto("max_turns")
              [] c.pc = "max_turns" ->
                   IF arg.max_turns # None
                   THEN Status("release", [statuses[id] EXCEPT !.max_turns = arg.max_turns])
                   ELSE Goto("release")
        after ==
            CASE c.op = "create_simulation_session" ->
                   After("release",
                         create_simulation_session(sessions, id, "persona", "goal", arg, now),
                         statuses, c.local)
              [] c.op = "update_simulation_session" -> update
              [] c.op = "stop_simulation" ->
                   After("release", stop_simulation(sessions, id).sessions, statuses, c.local)
              [] c.op = "cleanup_old_sessions" -> cleanup
              [] c.op = "set_thread_status" -> set_status
              [] c.op = "delete_thread_status" ->
                   After("release", sessions,
                         [k \in DOMAIN statuses \ {id} |-> statuses[k]], c.local)
              [] OTHER -> Goto("release")
    IN  /\ c.pc \notin {"idle", "with", "release"}
        /\ simulation_sessions' = after.sessions
        /\ thread_statuses' = after.statuses
        /\ callers' = [callers EXCEPT ![t].pc = after.pc, ![t].local = after.local]
        /\ UNCHANGED <<generation_jobs, issued, task, now, written, job_call,
                       session_call, threads, background, eval_context, generator,
                       session_lock, status_lock>>

\* The thread leaves the with block, which releases the lock, and returns.
release(t) ==
    /\ callers[t].pc = "release"
    /\ IF callers[t].op \in StatusCalls
       THEN status_lock' = None /\ UNCHANGED session_lock
       ELSE session_lock' = None /\ UNCHANGED status_lock
    /\ callers' = [callers EXCEPT ![t] = NoCall]
    /\ UNCHANGED <<generation_jobs, issued, task, now, written, simulation_sessions,
                   job_call, session_call, threads, thread_statuses, background,
                   eval_context, generator>>

(* --------------------------- specifications ---------------------------- *)

\* The job registry under direct calls, with the stage updates of the job
\* scenario: running at 10%, running at 50%, completed at 100% with a result.
NextJobs ==
    \/ create_job_call
    \/ \E job_id \in RegIds,
          kwargs \in { [status |-> "running", progress |-> 10],
                       [status |-> "running", progress |-> 50],
                       [status |-> "completed", progress |-> 100,
                        result |-> Some([x |-> 1])] } :
          update_job_call(job_id, kwargs)
    \/ \E max_age_seconds \in MaxAges : cleanup_old_jobs_call(max_age_seconds)
    \/ Tick

JobsSpec == Init /\ [][NextJobs]_vars

\* Both registries under direct calls, each with one update.
NextRegistries ==
    \/ create_job_call
    \/ \E job_id \in RegIds :
          update_job_call(job_id, [status |-> "running", progress |-> 10])
    \/ cleanup_old_jobs_call(0)
    \/ \E simulation_id \in SimIds : create_simulation_session_call(simulation_id, 2)
    \/ \E simulation_id \in SimIds :
          update_simulation_session_call(
             simulation_id,
             SessionUpdate(Some("failed"), Some(1), None, Some(FALSE), Some("boom")))
    \/ \E simulation_id \in SimIds : stop_simulation_call(simulation_id)
    \/ Tick

RegistriesSpec == Init /\ [][NextRegistries]_vars


\* The update a simulation run gives its session after a turn: the turn
\* number and the two messages of the turn.
TurnUpdate(n) ==
    SessionUpdate(None, Some(n), Some(<<Message("human", None), Message("ai", None)>>),
                  None, None)

\* The trajectory has room for the messages of the update.
HasRoom(simulation_id, u) ==
    simulation_id \in DOMAIN simulation_sessions =>
        Len(simulation_sessions[simulation_id].trajectory)
            + (IF u.new_messages = None THEN 0 ELSE Len(u.new_messages[1])) <= MaxMessages

\* The session registry under direct calls and the stop endpoint; sessions
\* are created with max_turns 1, and updated after a turn, when the goal is
\* reached and when the run failed.
NextSessions ==
    \/ \E simulation_id \in SimIds : create_simulation_session_call(simulation_id, 1)
    \/ \E simulation_id \in SimIds, n \in 1 .. 2 :
          /\ HasRoom(simulation_id, TurnUpdate(n))
          /\ update_simulation_session_call(simulation_id, TurnUpdate(n))
    \/ \E simulation_id \in SimIds,
          u \in { SessionUpdate(Some("completed"), None, None, Some(TRUE), None),
                  SessionUpdate(Some("failed"), None, None, None, Some("boom")) } :
          update_simulation_session_call(simulation_id, u)
    \/ \E simulation_id \in SimIds : stop_simulation_call(simulation_id)
    \/ \E simulation_id \in SimIds : should_stop_simulation_call(simulation_id)
    \/ list_simulation_sessions_call
    \/ \E max_age_hours \in MaxAges : cleanup_old_sessions_call(max_age_hours)
    \/ \E simulation_id \in SimIds : stop_simulation_endpoint(simulation_id)
    \/ Tick

SessionSpec == Init /\ [][NextSessions]_vars


\* The messages a thread may hold: from the persona or from the agent,
\* without additional_kwargs, or with additional_kwargs where stop is missing,
\* false or true.
MessageTypes == {"human", "ai"}
MessageLists ==
    LET messages ==
           {Message(type, None) : type \in MessageTypes}
              \cup {Message(type, Some(AdditionalKwargs(stop))) :
                       type \in MessageTypes, stop \in {None, Some(FALSE), Some(TRUE)}}
    IN  UNION {[1 .. n -> messages] : n \in 0 .. MaxMessages}

\* A final agent message that signals the stop.
StopMessage == Message("ai", Some(AdditionalKwargs(Some(TRUE))))

\* The histories whose last checkpoint holds one of the lists: no checkpoint,
\* one, two (the earlier one empty or with a stop message), or a single
\* checkpoint that is not in a list.
Histories(lists) ==
    LET checkpoints == {Checkpoint(None)} \cup {Checkpoint(Some(Values(l))) : l \in lists}
        EarlierCheckpoints == { Checkpoint(Some(Values(<<>>))),
                                Checkpoint(Some(Values(<<StopMessage>>))) }
    IN  {HistoryList(<<>>)}
           \cup {HistoryList(<<c>>) : c \in checkpoints}
           \cup {HistoryList(<<e, c>>) : e \in EarlierCheckpoints, c \in checkpoints}
           \cup {HistoryDict(c) : c \in checkpoints}

\* The thread store: empty, or one thread, whose metadata is that of
\* run_simulation, the run id alone, or both.
ThreadStores(histories) ==
    LET Metadatas ==
           {RunMetadata}
              \cup {RunIdMetadata(simulation_id) : simulation_id \in SimIds}
              \cup {RunMetadata @@ RunIdMetadata(simulation_id) : simulation_id \in SimIds}
    IN  {<<>>} \cup {<<Thread(1, metadata, history)>> :
                        metadata \in Metadatas, history \in histories}

\* A freshly started server next to a thread store that holds a thread with
\* at most one message, or none.
PollInit ==
    /\ InitServer
    /\ threads \in ThreadStores(Histories({<<>>, <<StopMessage>>}))

\* Clients polling both status endpoints while jobs and sessions are created.
NextPoll ==
    \/ create_job_call
    \/ \E job_id \in RegIds : get_generation_status_call(job_id)
    \/ \E simulation_id \in SimIds : create_simulation_session_call(simulation_id, 1)
    \/ \E simulation_id \in SimIds, failing \in Failing :
          get_simulation_status(simulation_id, failing)

PollSpec == PollInit /\ [][NextPoll]_vars

\* A freshly started server next to a thread store that holds any one thread.
StatusInit ==
    /\ InitServer
    /\ threads \in ThreadStores(Histories(MessageLists))

\* Clients polling the simulation status.
NextStatus ==
    \E simulation_id \in SimIds, failing \in Failing :
        get_simulation_status(simulation_id, failing)

StatusSpec == StatusInit /\ [][NextStatus]_vars


\* The outcomes of create_thread and of run_simulation_loop.
EngineOutcomes == {Returned(1), Raised("Exception", "model unavailable")}

\* Simulations started through run_simulation and run by their background
\* tasks, while clients poll the simulations and the thread status.
NextRun ==
    \/ \E lookup \in {"found", "no_persona", "no_goal", "raise"},
          max_turns \in {None, Some(1)}, created \in EngineOutcomes :
          run_simulation(lookup, max_turns, created)
    \/ \E thread_id \in ThreadIds : run_simulation_background_start(thread_id)
    \/ \E thread_id \in ThreadIds, stamps \in BOOLEAN,
          messages \in {<<Message("human", None)>>, <<Message("human", None), StopMessage>>} :
          run_simulation_loop_writes(thread_id, messages, stamps)
    \/ \E thread_id \in ThreadIds, outcome \in EngineOutcomes :
          run_simulation_background_resume(thread_id, outcome)
    \/ \E simulation_id \in ThreadIds, failing \in Failing :
          get_simulation_status(simulation_id, failing)
    \/ \E thread_id \in ThreadIds : get_thread_status_endpoint(thread_id)

RunSpec == Init /\ [][NextRun]_vars

\* Clients polling both status endpoints while jobs and sessions are created
\* and a simulation, whose thread carries its run id, runs and ends.
NextFrame ==
    \/ create_job_call
    \/ \E job_id \in RegIds : get_generation_status_call(job_id)
    \/ \E simulation_id \in SimIds : create_simulation_session_call(simulation_id, 1)
    \/ run_simulation("found", None, Returned(1))
    \/ \E thread_id \in ThreadIds : run_simulation_background_start(thread_id)
    \/ \E thread_id \in ThreadIds :
          run_simulation_loop_writes(thread_id, <<Message("human", None)>>, TRUE)
    \/ \E thread_id \in ThreadIds, outcome \in EngineOutcomes :
          run_simulation_background_resume(thread_id, outcome)
    \/ \E simulation_id \in ThreadIds, failing \in Failing :
          get_simulation_status(simulation_id, failing)

FrameSpec == Init /\ [][NextFrame]_vars

\* A freshly started server next to a thread store that holds one thread of
\* run_simulation with a list of messages in its checkpoint: messages of the
\* persona with the rewards +2, -1, +3 and -0.5; or with the rewards 0.1, 0.2
\* and -0.3, which are no binary fractions, and messages of the agent
\* without additional_kwargs; or with the rewards +2 and -1 and messages whose
\* additional_kwargs have no reward.
EvaluationInit ==
    LET Integer(sign, p) == Double(sign, <<0,0,0,0,0,0,0,0,0,0,0,0,0>>, p)
        binary == { Integer(1, 1), Integer(-1, 0), Integer(-1, -1),
                    Double(1, <<8,0,0,0,0,0,0,0,0,0,0,0,0>>, 1) }
        decimal == { Double(1, <<9,9,9,9,9,9,9,9,9,9,9,9,10>>, -4),
                     Double(1, <<9,9,9,9,9,9,9,9,9,9,9,9,10>>, -3),
                     Double(-1, <<3,3,3,3,3,3,3,3,3,3,3,3,3>>, -2) }
        rewarded(rewards) ==
            {Message("human", Some([stop |-> None, reward |-> reward])) : reward \in rewards}
        lists(messages) == UNION {[1 .. n -> messages] : n \in 0 .. MaxRewards}
    IN  /\ InitServer
        /\ \E messages \in
                 lists(rewarded(binary))
                    \cup lists(rewarded(decimal) \cup {Message("ai", None)})
                    \cup lists(rewarded({Integer(1, 1), Integer(-1, 0)})
                                  \cup {Message("human", Some(AdditionalKwargs(None)))}) :
              threads = <<Thread(1, RunMetadata,
                                 HistoryList(<<Checkpoint(Some(Values(messages)))>>))>>

\* Clients asking for the evaluation of the thread, which succeeds or fails
\* on the thread store.
NextEvaluation ==
    \E thread_id \in DOMAIN threads, failing \in {"none", "history"} :
        run_evaluation(thread_id, failing)

EvaluationSpec == EvaluationInit /\ [][NextEvaluation]_vars

\* Clients polling the status of generation jobs, of ids handed out or not,
\* while the background tasks run.
NextPolled ==
    \/ NextServer
    \/ \E job_id \in RegIds : get_generation_status_call(job_id)

PolledSpec == Init /\ [][NextPolled]_vars

\* A server that has run one persona job, job 0, to its end before the jobs
\* of JobIds are started: its record is what create_job and the update_job
\* calls of a generation that returned one persona leave, and the generator
\* of persona_manager is the one the job left (server.py:269-274).
SharedInit ==
    \E earlier \in PersonaRequests \ {NoRequest} :
        /\ generation_jobs =
              update_job_calls(
                  update_job_calls(create_job(<<>>, 0, 0), 0, PersonaStartWrites(earlier)),
                  0, PersonaReturnWrites(earlier, 1, 0))
        /\ issued = {0}
        /\ generator = IF earlier.custom THEN "<model>" ELSE default_generator_config
        /\ task = [j \in JobIds |-> NoTask]
        /\ now = 0
        /\ written = [j \in JobIds |-> <<>>]
        /\ simulation_sessions = <<>>
        /\ job_call = Call("none", 0, 0, None)
        /\ session_call = Call("none", 0, 0, None)
        /\ thread_statuses = <<>>
        /\ background = <<>>
        /\ eval_context = None
        /\ session_lock = None
        /\ status_lock = None
        /\ callers = [t \in Callers |-> NoCall]
        /\ threads = <<>>

SharedSpec == SharedInit /\ [][NextServer]_vars

\* The sweep of the session registry while time passes: sessions are created
\* with max_turns 1 and completed, and the sweep is called with every max
\* age of MaxAges, under one id more than SimIds so that a session the sweep
\* removes has a neighbour it keeps.
NextSweep ==
    \/ \E simulation_id \in 1 .. MaxSessions + 1 :
          \/ create_simulation_session_call(simulation_id, 1)
          \/ update_simulation_session_call(
                 simulation_id, SessionUpdate(Some("completed"), None, None, Some(TRUE), None))
    \/ \E max_age_hours \in MaxAges : cleanup_old_sessions_call(max_age_hours)
    \/ Tick

SweepSpec == Init /\ [][NextSweep]_vars

\* Simulations started through run_simulation and run by their background
\* tasks, while clients ask them to stop with the thread id run_simulation
\* returned, or with an id it never returns, and the stop flag of the id is
\* read.
NextStop ==
    \/ \E lookup \in {"found", "no_persona", "no_goal", "raise"},
          max_turns \in {None, Some(1)}, created \in EngineOutcomes :
          run_simulation(lookup, max_turns, created)
    \/ \E thread_id \in ThreadIds : run_simulation_background_start(thread_id)
    \/ \E thread_id \in ThreadIds, stamps \in BOOLEAN,
          messages \in {<<Message("human", None)>>, <<Message("human", None), StopMessage>>} :
          run_simulation_loop_writes(thread_id, messages, stamps)
    \/ \E thread_id \in ThreadIds, outcome \in EngineOutcomes :
          run_simulation_background_resume(thread_id, outcome)
    \/ \E simulation_id \in 1 .. MaxThreads + 1 : stop_simulation_endpoint(simulation_id)
    \/ \E simulation_id \in 1 .. MaxThreads + 1 : should_stop_simulation_call(simulation_id)

StopSpec == Init /\ [][NextStop]_vars

\* Two threads calling the session registry and the thread-status cache.
\* Sessions are created and updated under the ids of SimIds; the other calls
\* are also given an id that no session has.  The sweep is given a max age of
\* -1 hours, a cutoff after now, so that it removes the completed sessions
\* with no time passing between the calls.  The two modules share no state
\* and no lock, so each is called while the other is empty and at rest.
NextLocks ==
    LET tracker_free == simulation_sessions = <<>>
                           /\ \A t \in Callers : callers[t].op \in {"none"} \cup StatusCalls
        cache_free == thread_statuses = <<>>
                         /\ \A t \in Callers : callers[t].op \notin StatusCalls
    IN
    \/ /\ cache_free
       /\ \/ \E t \in Callers, id \in SimIds :
                \/ call(t, "create_simulation_session", id, 1)
                \/ /\ HasRoom(id, TurnUpdate(1))
                   /\ call(t, "update_simulation_session", id,
                           SessionUpdate(Some("failed"), Some(1),
                                         Some(<<Message("ai", None)>>), Some(TRUE),
                                         Some("boom")))
          \/ \E t \in Callers, id \in 1 .. MaxSessions + 1 :
                \E op \in {"stop_simulation", "should_stop_simulation",
                           "get_simulation_session"} : call(t, op, id, 0)
          \/ \E t \in Callers :
                \/ call(t, "list_simulation_sessions", 0, 0)
                \/ call(t, "cleanup_old_sessions", 0, -1)
    \/ /\ tracker_free
       /\ \E t \in Callers, thread_id \in ThreadIds :
             \/ call(t, "set_thread_status", thread_id,
                     ThreadStatus("failed", Some(<<"error: ", StoreError>>), Some(1), None))
             \/ \E op \in {"get_thread_status", "delete_thread_status"} :
                   call(t, op, thread_id, 0)
    \/ \E t \in Callers : acquire(t)
    \/ \E t \in Callers : statement(t)
    \/ \E t \in Callers : release(t)

LockSpec == Init /\ [][NextLocks]_vars

(* --------------------------- fairness ---------------------------------- *)

\* One segment of job j's background task; an awaited collaborator call
\* returns or raises.
TaskStep(j) ==
    \/ \E outcome \in ConfigOutcomes : run_persona_generation_start(j, outcome)
    \/ \E outcome \in GenerateOutcomes : run_persona_generation_resume(j, outcome)
    \/ generate_goal_background_start(j)
    \/ \E outcome \in StorageOutcomes : generate_goal_background_product(j, outcome)
    \/ \E outcome \in GenerateOutcomes : generate_goal_background_generated(j, outcome)
    \/ \E outcome \in StorageOutcomes : generate_goal_background_saved(j, outcome)

\* The event loop runs every task that can run, and every awaited call ends.
\* No step of a task reads the clock to decide anything, so the clock is left
\* where it is.
LiveSpec == Init /\ [][NextServer]_vars /\ \A j \in JobIds : WF_vars(TaskStep(j))

(* ----------------------------- properties ------------------------------ *)

Terminal == {"completed", "failed"}

HasProgress(kwargs) == "progress" \in DOMAIN kwargs

\* The progress values a sequence of update_job calls writes, in order.
ProgressValues(calls) ==
    LET sel == SelectSeq(calls, HasProgress)
    IN  [i \in 1 .. Len(sel) |-> sel[i].progress]

NonDecreasing(seq) == \A i \in 1 .. Len(seq) - 1 : seq[i] <= seq[i + 1]

\* The progress of job j before a step: the stored one, or the dataclass
\* default when the step creates the job.
ProgressBefore(j) ==
    IF j \in DOMAIN generation_jobs THEN generation_jobs[j].progress ELSE 0

\* C1: the progress values written to a job never decrease: in every step of
\* a job's handler or task, the job's progress before the step followed by
\* the values the step's update_job calls write, in order, is a
\* non-decreasing sequence, and the step leaves the last of them in the job.
C1_ProgressNonDecreasing ==
    [][\A j \in JobIds :
          (task'[j] # task[j]) =>
             /\ NonDecreasing(<<ProgressBefore(j)>> \o ProgressValues(written'[j]))
             /\ j \in DOMAIN generation_jobs' /\ j \in DOMAIN generation_jobs
                  => generation_jobs'[j].progress >= generation_jobs[j].progress]_vars

\* A persona job that went through the Exa stages and completed at 100.
C1_Witness ==
    \E j \in DOMAIN generation_jobs :
        /\ generation_jobs[j].status = "completed"
        /\ generation_jobs[j].progress = 100
        /\ ProgressValues(written[j]) = <<50, 85, 95, 100>>

\* C2: a failed job has an error and no result, a completed job has a result
\* and no error.
C2_ErrorXorResult ==
    \A j \in DOMAIN generation_jobs :
        /\ generation_jobs[j].status = "failed"
             => generation_jobs[j].error # None /\ generation_jobs[j].result = None
        /\ generation_jobs[j].status = "completed"
             => generation_jobs[j].result # None /\ generation_jobs[j].error = None

\* A persona job completed with its result.
C2_Witness ==
    \E j \in DOMAIN generation_jobs :
        /\ task[j].kind = "persona" /\ task[j].pc = "done"
        /\ generation_jobs[j].status = "completed"
        /\ generation_jobs[j].result # None

SetsTerminal(kwargs) == "status" \in DOMAIN kwargs /\ kwargs.status \in Terminal

\* C3: terminal status is absorbing: a step never changes a job that is
\* completed or failed, and within a step no update_job call follows the call
\* that made the job completed or failed.
C3_TerminalAbsorbing ==
    [][\A j \in JobIds :
          /\ (j \in DOMAIN generation_jobs /\ generation_jobs[j].status \in Terminal)
               => (j \in DOMAIN generation_jobs'
                   /\ generation_jobs'[j] = generation_jobs[j])
          /\ \A i \in 1 .. Len(written'[j]) - 1 : ~SetsTerminal(written'[j][i])]_vars

\* A job that failed for want of personas, observed after time has passed.
C3_Witness ==
    \E j \in DOMAIN generation_jobs :
        /\ generation_jobs[j].status = "failed"
        /\ generation_jobs[j].error = Some("No persona generated")
        /\ now > generation_jobs[j].started_at

\* C4: completed_at is null exactly while the job is not terminal: it is set
\* by the update that makes the job completed or failed.
C4_CompletedAtIffTerminal ==
    \A j \in DOMAIN generation_jobs :
        (generation_jobs[j].status \in Terminal)
            <=> (generation_jobs[j].completed_at # None)

\* C5: every job's status is one of pending, running, completed, failed.
C5_StatusInDeclaredSet ==
    \A j \in DOMAIN generation_jobs :
        generation_jobs[j].status \in {"pending", "running", "completed", "failed"}

\* The job of a task that a raising collaborator call ended.
EndedByRaise(j) ==
    /\ j \in DOMAIN generation_jobs
    /\ task[j].pc = "done"
    /\ task[j].raised # None

\* C6 as stated: after a collaborator call raised, the job is failed with the
\* exception's message and the stage "Error occurred".
C6_StageAlwaysErrorOccurred ==
    \A j \in JobIds :
        EndedByRaise(j) =>
            /\ generation_jobs[j].status = "failed"
            /\ generation_jobs[j].error = Some(task[j].raised[1].msg)
            /\ generation_jobs[j].stage = "Error occurred"

\* The stage label the failure of a collaborator call leaves.
FailureStage(kind, exc) ==
    IF kind = "goal" THEN "Generation failed"
    ELSE IF exc.type = "ValueError" /\ exc.msg = "Exa search failed"
         THEN "Exa enrichment failed"
         ELSE "Error occurred"

\* C6: after a collaborator call raised, the task's last update_job call sets status failed, error to the exception's message and stage to the
\* failure label of its path ("Error occurred" for a persona job, "Exa
\* enrichment failed" for a ValueError that mentions Exa, "Generation failed"
\* for a goal job); the job holds these values and the task takes no further
\* step.
C6_FailureRecorded ==
    /\ [](\A j \in JobIds :
            EndedByRaise(j) =>
               /\ generation_jobs[j].status = "failed"
               /\ generation_jobs[j].error = Some(task[j].raised[1].msg)
               /\ generation_jobs[j].stage = FailureStage(task[j].kind, task[j].raised[1])
               /\ written[j] # <<>>
               /\ written[j][Len(written[j])] =
                    [ status |-> "failed",
                      error  |-> Some(task[j].raised[1].msg),
                      stage  |-> FailureStage(task[j].kind, task[j].raised[1]) ])
    /\ [][\A j \in JobIds :
            task[j].pc = "done" => task'[j] = task[j] /\ written'[j] = written[j]]_vars

\* A persona job failed by an exception that is no Exa error.
C6_Witness ==
    \E j \in JobIds :
        /\ EndedByRaise(j)
        /\ task[j].kind = "persona"
        /\ task[j].raised[1].msg = "model unavailable"
        /\ generation_jobs[j].stage = "Error occurred"

\* C7: every job started through an async endpoint eventually is completed
\* or failed.
C7_EventuallyTerminal ==
    \A j \in JobIds :
        (j \in DOMAIN generation_jobs)
            ~> (j \in DOMAIN generation_jobs /\ generation_jobs[j].status \in Terminal)

\* A goal job completed after saving two goals.
C7_Witness ==
    \E j \in DOMAIN generation_jobs :
        /\ task[j].kind = "goal" /\ task[j].pc = "done"
        /\ generation_jobs[j].status = "completed"
        /\ generation_jobs[j].result = Some([items |-> "goals", n |-> 2])

\* C8: an update for an id that is not in its registry changes nothing and
\* does not create the entry: the registry is the same after the call and a
\* get for the id returns not-found.
C8_UpdateOfAbsentIdIsNoOp ==
    [][/\ (job_call'.op = "update_job" /\ job_call'.id \notin DOMAIN generation_jobs)
          => /\ generation_jobs' = generation_jobs
             /\ job_call'.ret = None
             /\ get_job(generation_jobs', job_call'.id) = None
       /\ (session_call'.op = "update_simulation_session"
           /\ session_call'.id \notin DOMAIN simulation_sessions)
          => /\ simulation_sessions' = simulation_sessions
             /\ session_call'.ret = None
             /\ get_simulation_session(simulation_sessions', session_call'.id) = None]_vars

\* update_job was called for a job a sweep had removed, and
\* update_simulation_session for an id no session was created for.
C8_Witness ==
    /\ job_call.op = "update_job"
    /\ job_call.id \in issued \ DOMAIN generation_jobs
    /\ job_call.ret = None
    /\ session_call.op = "update_simulation_session"
    /\ session_call.id \notin DOMAIN simulation_sessions
    /\ session_call.ret = None

\* C9: cleanup_old_jobs(max_age) removes exactly the jobs whose age, now minus
\* started_at, exceeds max_age, whatever their status, and leaves the other
\* jobs as they were.
C9_CleanupRemovesExactlyOld ==
    [][\A max_age_seconds \in MaxAges :
          cleanup_old_jobs_call(max_age_seconds) =>
             /\ DOMAIN generation_jobs' =
                  {j \in DOMAIN generation_jobs :
                      ~(now - generation_jobs[j].started_at > max_age_seconds)}
             /\ \A j \in DOMAIN generation_jobs' :
                  generation_jobs'[j] = generation_jobs[j]]_vars

\* A sweep removed the older job, and the younger one, still running, is left.
C9_Witness ==
    /\ job_call.op = "cleanup_old_jobs"
    /\ issued = {1, 2}
    /\ DOMAIN generation_jobs = {2}
    /\ generation_jobs[2].status = "running"
    /\ now - generation_jobs[2].started_at <= job_call.arg

\* C10 as stated: after cleanup_old_jobs(0), get_job finds none of the jobs
\* that were in the registry.
C10_CleanupZeroRemovesAll ==
    [][cleanup_old_jobs_call(0) =>
          \A j \in DOMAIN generation_jobs : get_job(generation_jobs', j) = None]_vars

\* C10: after cleanup_old_jobs(0), get_job finds no job created before the
\* current clock reading, whatever updates it received; a job whose
\* started_at equals the clock reading has age 0 and is kept unchanged.
C10_CleanupZeroRemovesOlder ==
    [][cleanup_old_jobs_call(0) =>
          \A j \in DOMAIN generation_jobs :
             /\ now > generation_jobs[j].started_at
                  => get_job(generation_jobs', j) = None
             /\ now = generation_jobs[j].started_at
                  => get_job(generation_jobs', j) = Some(generation_jobs[j])]_vars

\* Jobs were created and cleanup_old_jobs(0) left none of them.
C10_Witness ==
    /\ job_call = Call("cleanup_old_jobs", 0, 0, None)
    /\ issued # {}
    /\ generation_jobs = <<>>
    /\ now > 0


\* C11: create_job adds exactly one entry, under an id no job of the registry
\* has, with status pending, progress 0 and error, result and completed_at
\* None, and leaves every job that was in the registry as it was.
C11_CreateJobInsertsFreshPending ==
    [][create_job_call =>
          LET added == DOMAIN generation_jobs' \ DOMAIN generation_jobs IN
             /\ Cardinality(added) = 1
             /\ \A j \in added :
                  /\ generation_jobs'[j].id = j
                  /\ job_call'.id = j
                  /\ generation_jobs'[j].status = "pending"
                  /\ generation_jobs'[j].progress = 0
                  /\ generation_jobs'[j].error = None
                  /\ generation_jobs'[j].result = None
                  /\ generation_jobs'[j].completed_at = None
             /\ \A j \in DOMAIN generation_jobs :
                  /\ j \in DOMAIN generation_jobs'
                  /\ generation_jobs'[j] = generation_jobs[j]]_vars

\* A second job was created next to a job that had been updated: the first
\* keeps its update and the second has the defaults.
C11_Witness ==
    /\ job_call = Call("create_job", 2, 0, None)
    /\ DOMAIN generation_jobs = {1, 2}
    /\ generation_jobs[1].status = "running"
    /\ generation_jobs[1].progress = 50
    /\ generation_jobs[2].status = "pending"
    /\ generation_jobs[2].progress = 0

\* C13: stop_simulation(id) returns true exactly when the id is in the
\* registry at the call, and a second call right after it changes nothing
\* and returns the same value.
C13_StopReturnsPresenceAndIsIdempotent ==
    [][\A simulation_id \in SimIds :
          stop_simulation_call(simulation_id) =>
             /\ session_call'.ret = Some(simulation_id \in DOMAIN simulation_sessions)
             /\ LET again == stop_simulation(simulation_sessions', simulation_id) IN
                  /\ again.sessions = simulation_sessions'
                  /\ Some(again.ret) = session_call'.ret]_vars

\* stop_simulation returned true for a session that was already told to stop
\* by an earlier call and has failed since.
C13_Witness ==
    /\ session_call = Call("stop_simulation", 1, 0, Some(TRUE))
    /\ 1 \in DOMAIN simulation_sessions
    /\ simulation_sessions[1].should_stop
    /\ simulation_sessions[1].status = "failed"

\* C14 as stated: once should_stop_simulation(id) is true (stop_simulation
\* returned true for the id), it is true after every later operation of the
\* session registry.
C14_ShouldStopNeverResets ==
    [][\A simulation_id \in SimIds :
          should_stop_simulation(simulation_sessions, simulation_id)
             => should_stop_simulation(simulation_sessions', simulation_id)]_vars

\* s is a prefix of t.
IsPrefix(s, t) == Len(s) <= Len(t) /\ SubSeq(t, 1, Len(s)) = s

\* C15 as stated: every operation of the session registry leaves the
\* trajectory of a session it keeps a continuation of what it was.
C15_TrajectoryAppendOnly ==
    [][\A simulation_id \in DOMAIN simulation_sessions \cap DOMAIN simulation_sessions' :
          IsPrefix(simulation_sessions[simulation_id].trajectory,
                   simulation_sessions'[simulation_id].trajectory)]_vars

\* C16 as stated: no session has a current_turn above its max_turns.
C16_TurnWithinMaxTurns ==
    \A simulation_id \in DOMAIN simulation_sessions :
        simulation_sessions[simulation_id].current_turn
            <= simulation_sessions[simulation_id].max_turns

SessionTerminal == {"completed", "failed", "stopped"}

\* C17 as stated: an update with a terminal status sets completed_at of a
\* session that has none, and neither an update nor the stop endpoint changes
\* a completed_at that is set.
C17_CompletedAtWrittenOnce ==
    [][\A simulation_id \in DOMAIN simulation_sessions :
          session_call'.op \in {"update_simulation_session", "stop_simulation_endpoint"}
             => /\ simulation_id \in DOMAIN simulation_sessions'
                /\ simulation_sessions[simulation_id].completed_at # None
                     => simulation_sessions'[simulation_id].completed_at
                          = simulation_sessions[simulation_id].completed_at]_vars

\* C18 as stated: the stop endpoint leaves the status, completed_at,
\* trajectory and error of a completed, failed or stopped session as they were.
C18_StopOfTerminalIsNoOp ==
    [][\A simulation_id \in SimIds :
          ( /\ stop_simulation_endpoint(simulation_id)
            /\ simulation_id \in DOMAIN simulation_sessions
            /\ simulation_sessions[simulation_id].status \in SessionTerminal )
          => /\ simulation_sessions'[simulation_id].status
                  = simulation_sessions[simulation_id].status
             /\ simulation_sessions'[simulation_id].completed_at
                  = simulation_sessions[simulation_id].completed_at
             /\ simulation_sessions'[simulation_id].trajectory
                  = simulation_sessions[simulation_id].trajectory
             /\ simulation_sessions'[simulation_id].error
                  = simulation_sessions[simulation_id].error]_vars


\* The threads of the store that carry the simulation id in their metadata.
ThreadsOf(simulation_id) ==
    {t \in DOMAIN threads :
        /\ "simulation_run_id" \in DOMAIN threads[t].metadata
        /\ threads[t].metadata.simulation_run_id = simulation_id}

\* C12: a poll of a job id that is not in the registry, and a poll of a
\* simulation id that no session and no thread carries, are answered with
\* HTTP 404 and no status object; a poll of a job that is in the registry
\* with status pending is answered with that job, status pending.
C12_UnknownIdIsNotFound ==
    [][/\ \A job_id \in RegIds :
            get_generation_status_call(job_id) =>
               /\ job_id \notin DOMAIN generation_jobs
                    => /\ job_call'.ret[1].status_code = 404
                       /\ job_call'.ret[1].body = None
               /\ ( /\ job_id \in DOMAIN generation_jobs
                    /\ generation_jobs[job_id].status = "pending" )
                    => /\ job_call'.ret[1].status_code = 200
                       /\ job_call'.ret[1].body # None
                       /\ job_call'.ret[1].body[1].id = job_id
                       /\ job_call'.ret[1].body[1].status = "pending"
       /\ \A simulation_id \in SimIds, failing \in Failing :
            ( /\ get_simulation_status(simulation_id, failing)
              /\ simulation_id \notin DOMAIN simulation_sessions
              /\ ThreadsOf(simulation_id) = {} )
            => /\ session_call'.ret[1].status_code = 404
               /\ session_call'.ret[1].body = None]_vars

\* Job 1 is pending and was never updated, a poll of job 2, which was never
\* created, was answered 404, and so was a poll of simulation 1 while the
\* store holds only a thread without a simulation id.
C12_Witness ==
    /\ DOMAIN generation_jobs = {1}
    /\ generation_jobs[1].status = "pending"
    /\ job_call.op = "get_generation_status"
    /\ job_call.id = 2
    /\ job_call.ret[1].status_code = 404
    /\ session_call.op = "get_simulation_status"
    /\ session_call.arg = "none"
    /\ session_call.ret[1].status_code = 404
    /\ threads # <<>>
    /\ ThreadsOf(1) = {}

\* The messages of the last checkpoint of thread t, none when the history has
\* no checkpoint or the checkpoint has no values.
LastCheckpointMessages(t) ==
    LET checkpoints == threads[t].history.checkpoints IN
        IF checkpoints = <<>> \/ checkpoints[Len(checkpoints)].values = None
        THEN <<>>
        ELSE checkpoints[Len(checkpoints)].values[1].messages

\* The message carries stop = true in its additional_kwargs.
CarriesStop(msg) ==
    /\ msg.additional_kwargs # None
    /\ msg.additional_kwargs[1].stop = Some(TRUE)

\* A poll of a simulation was answered with a status object.
StatusAnswered ==
    /\ session_call.op = "get_simulation_status"
    /\ session_call.ret[1].status_code = 200

\* C19: the status get_simulation_status reports is completed exactly when
\* the last checkpoint has messages and the last of them carries stop = true,
\* and running otherwise; the earlier messages and checkpoints do not matter.
C19_CompletedIffLastMessageStops ==
    StatusAnswered =>
        LET body == session_call.ret[1].body[1]
            messages == LastCheckpointMessages(body.thread_id)
        IN  /\ body.status \in {"completed", "running"}
            /\ body.status = "completed"
                 <=> ( /\ messages # <<>>
                       /\ CarriesStop(messages[Len(messages)]) )

\* The status is running although an earlier message of the last checkpoint
\* and the earlier checkpoint carry stop = true.
C19_Witness ==
    /\ StatusAnswered
    /\ session_call.ret[1].body[1].status = "running"
    /\ LET checkpoints == threads[1].history.checkpoints
           messages == LastCheckpointMessages(1)
       IN  /\ Len(checkpoints) = 2
           /\ checkpoints[1].values[1].messages = <<StopMessage>>
           /\ Len(messages) = 2
           /\ CarriesStop(messages[1])
           /\ ~CarriesStop(messages[2])

\* C20: should_continue_polling is false exactly when the last message
\* carries stop = true and is not of type human; with stop = true on a last
\* message of type ai the answer is status completed with
\* should_continue_polling false.
C20_PollingStopsOnAgentStop ==
    StatusAnswered =>
        LET body == session_call.ret[1].body[1]
            messages == LastCheckpointMessages(body.thread_id)
            stopped == messages # <<>> /\ CarriesStop(messages[Len(messages)])
        IN  /\ body.should_continue_polling = FALSE
                 <=> (stopped /\ messages[Len(messages)].type # "human")
            /\ (stopped /\ messages[Len(messages)].type = "ai")
                 => /\ body.status = "completed"
                    /\ body.should_continue_polling = FALSE

\* The last message is of type human and carries stop = true, and the
\* answer tells the client to keep polling.
C20_Witness ==
    /\ StatusAnswered
    /\ session_call.ret[1].body[1].should_continue_polling
    /\ LET messages == LastCheckpointMessages(1) IN
          /\ messages # <<>>
          /\ messages[Len(messages)].type = "human"
          /\ CarriesStop(messages[Len(messages)])

\* C22: the trajectory get_simulation_status returns is the message list of
\* the last checkpoint of the thread's history, as it stands there: nothing of
\* an earlier checkpoint is merged in, and a history without a checkpoint or
\* without values gives the empty trajectory.
C22_TrajectoryIsLastCheckpoint ==
    StatusAnswered =>
        LET body == session_call.ret[1].body[1] IN
            body.trajectory = LastCheckpointMessages(body.thread_id)

\* The earlier checkpoint holds the stop message only, the last checkpoint
\* holds other messages, and the trajectory holds no stop message.
C22_Witness ==
    /\ StatusAnswered
    /\ LET checkpoints == threads[1].history.checkpoints
           trajectory == session_call.ret[1].body[1].trajectory
       IN  /\ Len(checkpoints) = 2
           /\ checkpoints[1].values[1].messages = <<StopMessage>>
           /\ trajectory # <<>>
           /\ \A i \in 1 .. Len(trajectory) : trajectory[i] # StopMessage

C26_FailedFetchIsNotAnEmptyRun ==
    session_call.op = "get_simulation_status" =>
        /\ session_call.arg \in {"history", "get"}
              => /\ session_call.ret[1].status_code >= 400
                 /\ session_call.ret[1].body = None
        /\ ( /\ session_call.arg = "none"
             /\ ThreadsOf(session_call.id) # {}
             /\ \A t \in ThreadsOf(session_call.id) : LastCheckpointMessages(t) = <<>> )
              => /\ session_call.ret[1].status_code = 200
                 /\ session_call.ret[1].body # None
                 /\ session_call.ret[1].body[1].status = "running"
                 /\ session_call.ret[1].body[1].trajectory = <<>>
                 /\ session_call.ret[1].body[1].current_turn = 0

\* Fetching the history of a thread that is there, and has no messages,
\* failed, and the answer is the error 500.
C26_Witness ==
    /\ session_call.op = "get_simulation_status"
    /\ session_call.arg = "history"
    /\ ThreadsOf(session_call.id) = {1}
    /\ LastCheckpointMessages(1) = <<>>
    /\ session_call.ret[1].status_code = 500
    /\ session_call.ret[1].body = None

\* The label and the progress of the stage in which task t awaits its
\* collaborator: the enrichment search or else the model call of a persona
\* task, the product lookup and the model call of a goal task.
AwaitedStage(t) ==
    IF t.kind = "persona"
    THEN IF t.req.use_exa_enrichment THEN SearchingExa ELSE CallingModel(t.req)
    ELSE IF t.pc = "product" THEN LoadingProduct
    ELSE AIGenerating

\* C30: while a background task awaits the collaborator of a stage, the job
\* carries the label and the progress of that stage, so that a poll taken
\* during the model call reads the model-call label.
C30_StageLabelWrittenBeforeCall ==
    \A j \in JobIds :
        ( /\ task[j].pc \in {"generate", "product"}
          /\ j \in DOMAIN generation_jobs )
            => /\ generation_jobs[j].stage = AwaitedStage(task[j]).stage
               /\ generation_jobs[j].progress = AwaitedStage(task[j]).progress

\* C27: a poll of a job or of a simulation, answered or failed on the thread
\* store, leaves the job registry, the session registry and the thread-status
\* cache as they were; no poll turns a session or a thread status to failed.
C27_PollsAreReadOnly ==
    [][( \/ \E job_id \in RegIds : get_generation_status_call(job_id)
         \/ \E simulation_id \in ThreadIds, failing \in Failing :
               get_simulation_status(simulation_id, failing) )
         => UNCHANGED <<generation_jobs, simulation_sessions, thread_statuses,
                        generator, session_lock, status_lock, callers>>]_vars

\* A poll of a running simulation failed on the history of its thread, next
\* to a job and a session in the registries, and the thread status is still
\* running.
C27_Witness ==
    /\ session_call.op = "get_simulation_status"
    /\ session_call.arg = "history"
    /\ session_call.ret[1].status_code = 500
    /\ session_call.id \in DOMAIN thread_statuses
    /\ thread_statuses[session_call.id].status = "running"
    /\ DOMAIN generation_jobs # {}
    /\ DOMAIN simulation_sessions # {}
    /\ \A id \in DOMAIN simulation_sessions : simulation_sessions[id].status # "failed"

\* C28: once the failure of a simulation's run_simulation_loop is recorded,
\* status failed with the error message, every poll of that simulation which
\* the thread store serves is answered with status failed.
C28_FailedRunIsReportedToPolls ==
    [][\A simulation_id \in ThreadIds :
          ( /\ get_simulation_status(simulation_id, "none")
            /\ simulation_id \in DOMAIN thread_statuses
            /\ thread_statuses[simulation_id].status = "failed"
            /\ thread_statuses[simulation_id].stopped_reason # None )
            => /\ session_call'.ret[1].status_code = 200
               /\ session_call'.ret[1].body[1].status = "failed"]_vars

\* C29: a run_simulation whose persona or goal is not in storage is answered
\* 404 and leaves the thread store, the thread-status cache and the
\* background tasks as they were.
C29_MissingPersonaOrGoalIsNotFound ==
    [][\A lookup \in {"no_persona", "no_goal"}, max_turns \in {None, Some(1)},
          created \in EngineOutcomes :
          run_simulation(lookup, max_turns, created)
            => /\ session_call'.ret[1].status_code = 404
               /\ UNCHANGED <<threads, thread_statuses, background,
                              generator, session_lock, status_lock, callers>>]_vars

\* The role the message type stands for: user for human, assistant for ai,
\* system and tool for themselves, any other type for itself.
StandardRole(type) ==
    IF type = "human" THEN "user"
    ELSE IF type = "ai" THEN "assistant"
    ELSE type

\* C21: in the trajectory run_evaluation builds from the messages of a thread,
\* the role of every entry is the one the type of its message stands for:
\* user for human, assistant for ai.
C21_RolesFollowTheTable ==
    eval_context # None =>
        LET trajectory == eval_context[1].trajectory
            messages == LastCheckpointMessages(1)
        IN  \A i \in 1 .. Len(trajectory) :
               trajectory[i].role = StandardRole(messages[i].type)

\* run_evaluation answered with an evaluation result.
EvaluationAnswered ==
    /\ session_call.op = "run_evaluation"
    /\ session_call.ret[1].status_code = 200

\* x - y of two floats: x plus the float of the opposite sign.
float_sub(x, y) ==
    float_add(x, IF IsZero(y) THEN y ELSE [y EXCEPT !.sign = -y.sign])

\* C24: in every evaluation result the total reward equals the positive
\* rewards minus the negative penalties.
C24_TotalIsPositiveMinusPenalties ==
    EvaluationAnswered =>
        LET results == session_call.ret[1].body[1].results IN
            results.total_reward =
               float_sub(results.positive_rewards, results.negative_penalties)

\* The rewards the messages carry, first to last; a message without a reward
\* has none.
RECURSIVE PresentRewards(_)
PresentRewards(messages) ==
    IF messages = <<>> THEN <<>>
    ELSE LET msg == Head(messages)
             present == /\ msg.additional_kwargs # None
                        /\ "reward" \in DOMAIN msg.additional_kwargs[1]
         IN  (IF present THEN <<msg.additional_kwargs[1].reward>> ELSE <<>>)
                \o PresentRewards(Tail(messages))

\* The sum of a list of floats, added up first to last from 0.
RECURSIVE Sum(_)
Sum(floats) ==
    IF floats = <<>> THEN Zero
    ELSE float_add(Sum(SubSeq(floats, 1, Len(floats) - 1)), floats[Len(floats)])

\* The numbers 3.5, 5 and 1.5, and the rewards [+2, -1, +3, -0.5].
ThreeAndAHalf == Double(1, <<12,0,0,0,0,0,0,0,0,0,0,0,0>>, 1)
Five == Double(1, <<4,0,0,0,0,0,0,0,0,0,0,0,0>>, 2)
OneAndAHalf == Double(1, <<8,0,0,0,0,0,0,0,0,0,0,0,0>>, 0)
ScenarioRewards ==
    << Double(1, <<0,0,0,0,0,0,0,0,0,0,0,0,0>>, 1),
       Double(-1, <<0,0,0,0,0,0,0,0,0,0,0,0,0>>, 0),
       Double(1, <<8,0,0,0,0,0,0,0,0,0,0,0,0>>, 1),
       Double(-1, <<0,0,0,0,0,0,0,0,0,0,0,0,0>>, -1) >>

\* C25: in every evaluation result the total reward is the sum of the rewards
\* the messages carry, a message without a reward adding nothing, the positive
\* rewards are the sum of the rewards above zero, and the negative penalties
\* are the sum of the absolute values of the rewards below zero; the rewards
\* [+2, -1, +3, -0.5] give 3.5, 5 and 1.5.
C25_RewardSums ==
    EvaluationAnswered =>
        LET results == session_call.ret[1].body[1].results
            rewards == PresentRewards(LastCheckpointMessages(session_call.id))
            penalties == SelectSeq(rewards, Negative)
        IN  /\ results.total_reward = Sum(rewards)
            /\ results.positive_rewards = Sum(SelectSeq(rewards, Positive))
            /\ results.negative_penalties =
                  Sum([i \in 1 .. Len(penalties) |-> float_abs(penalties[i])])
            /\ rewards = ScenarioRewards
                  => /\ results.total_reward = ThreeAndAHalf
                     /\ results.positive_rewards = Five
                     /\ results.negative_penalties = OneAndAHalf

\* The thread with the rewards [+2, -1, +3, -0.5] was evaluated, with total
\* 3.5, positive rewards 5 and negative penalties 1.5.
C25_Witness ==
    /\ EvaluationAnswered
    /\ PresentRewards(LastCheckpointMessages(session_call.id)) = ScenarioRewards
    /\ session_call.ret[1].body[1].results.total_reward = ThreeAndAHalf
    /\ session_call.ret[1].body[1].results.positive_rewards = Five
    /\ session_call.ret[1].body[1].results.negative_penalties = OneAndAHalf

\* get_generation_status answered with the snapshot of a job.
JobSnapshotAnswered ==
    /\ job_call.op = "get_generation_status"
    /\ job_call.ret[1].status_code = 200

\* The snapshot is whole: completed comes with a result and progress 100,
\* failed comes with an error.
Whole(snapshot) ==
    /\ snapshot.status = "completed" => snapshot.result # None /\ snapshot.progress = 100
    /\ snapshot.status = "failed" => snapshot.error # None

\* C31: however the polls interleave with the task of a job, no snapshot that
\* get_generation_status returns has status completed without a result or
\* with progress below 100, or status failed without an error; the same holds
\* of every job of the registry, which is what the next poll would return.
C31_NoTornSnapshot ==
    /\ JobSnapshotAnswered => Whole(job_call.ret[1].body[1])
    /\ \A job_id \in DOMAIN generation_jobs : Whole(to_dict(generation_jobs[job_id]))

\* A poll was answered with a completed job, and one with a failed job, after
\* the task of the job had run.
C31_Witness ==
    /\ JobSnapshotAnswered
    /\ job_call.ret[1].body[1].status \in {"completed", "failed"}
    /\ task[job_call.id].pc = "done"
    /\ Len(written[job_call.id]) > 1

\* C34: every id that generate_persona_async or generate_goal_async has handed
\* out is in the job registry, and a get_generation_status poll for such an id
\* is never answered not-found, also when the task of the job has not started.
C34_RegisteredBeforeHandedOut ==
    /\ [](issued \subseteq DOMAIN generation_jobs)
    /\ [][(/\ job_call' # job_call
            /\ job_call'.op = "get_generation_status"
            /\ job_call'.id \in issued)
              => job_call'.ret[1].status_code = 200]_vars

\* A poll for a job whose task has not started yet was answered with the job.
C34_Witness ==
    /\ JobSnapshotAnswered
    /\ job_call.id \in issued
    /\ task[job_call.id].pc = "queued"
    /\ job_call.ret[1].body[1].status \in {"pending", "queued"}

\* The task of the job is suspended at an awaited collaborator call.
Awaiting(j) == task[j].pc \in {"generate", "get_product", "save_goal"}

\* C36: while the task of a job is suspended at a collaborator call that has
\* not returned, the job reports status running, and no step other than the
\* return of that call changes the job.
C36_StalledJobStaysRunning ==
    /\ [](\A j \in JobIds : Awaiting(j) => generation_jobs[j].status = "running")
    /\ [][\A j \in JobIds :
             Awaiting(j) /\ task'[j] = task[j] => generation_jobs'[j] = generation_jobs[j]]_vars

\* The thread is inside the with block of its call.
Inside(t) == callers[t].pc \notin {"idle", "with"}

\* What the call of the thread makes of the registry, or of the cache, that
\* it found when it took the lock, run as a whole.
Effect(c) ==
    CASE c.op = "create_simulation_session" ->
           create_simulation_session(c.entered, c.id, "persona", "goal", c.arg, now)
      [] c.op = "update_simulation_session" ->
           update_simulation_session(c.entered, c.id, c.arg, now)
      [] c.op = "stop_simulation" -> stop_simulation(c.entered, c.id).sessions
      [] c.op = "cleanup_old_sessions" -> cleanup_old_sessions(c.entered, now, c.arg)
      [] c.op = "set_thread_status" ->
           set_thread_status(c.entered, c.id, c.arg.status, c.arg.stopped_reason,
                             c.arg.current_turn, c.arg.max_turns)
      [] c.op = "delete_thread_status" ->
           [k \in DOMAIN c.entered \ {c.id} |-> c.entered[k]]
      [] OTHER -> c.entered

\* C32: no two threads are inside with blocks of the session registry at the
\* same time, nor inside with blocks of the thread-status cache; the thread
\* inside holds the lock; and when a thread leaves its with block, the
\* registry (the cache) is what its call alone makes of the one it found on
\* entry: no update is lost or applied in part.
C32_CallsAreMutuallyExclusive ==
    /\ \A t1, t2 \in Callers :
          (/\ t1 # t2 /\ Inside(t1) /\ Inside(t2)) =>
              (callers[t1].op \in StatusCalls) # (callers[t2].op \in StatusCalls)
    /\ \A t \in Callers :
          Inside(t) => IF callers[t].op \in StatusCalls THEN status_lock = Some(t)
                       ELSE session_lock = Some(t)
    /\ \A t \in Callers :
          callers[t].pc = "release" =>
             IF callers[t].op \in StatusCalls
             THEN thread_statuses = Effect(callers[t])
             ELSE simulation_sessions = Effect(callers[t])

\* A thread is half way through update_simulation_session, the status written
\* and the error not yet, while the other thread waits at the with statement
\* of an update of the same session.
C32_Witness ==
    \E t1, t2 \in Callers :
        /\ callers[t1].op = "update_simulation_session" /\ callers[t1].pc = "error"
        /\ simulation_sessions[callers[t1].id].status = "failed"
        /\ simulation_sessions[callers[t1].id].error = None
        /\ callers[t2].op = "update_simulation_session" /\ callers[t2].pc = "with"
        /\ callers[t2].id = callers[t1].id

\* C33: a thread that waits at the with statement of a call for one session
\* id waits for a thread that is in a call for the same id.
C33_NoWaitingForOtherIds ==
    \A t, h \in Callers :
        (/\ callers[t].pc = "with" /\ callers[t].op \notin StatusCalls
         /\ session_lock = Some(h)
         /\ callers[t].id # 0 /\ callers[h].id # 0)
            => callers[h].id = callers[t].id

\* C35: a persona job uses the generator configuration of its own request:
\* while its task awaits persona_manager.generate, the generator of
\* persona_manager is the one of a custom configuration if the request has
\* custom settings and the default one if it has none, whichever jobs ran
\* before it.
C35_JobsAreIndependent ==
    \A j \in JobIds :
        (task[j].kind = "persona" /\ task[j].pc = "generate") =>
            generator = IF task[j].req.custom THEN "<model>"
                        ELSE default_generator_config

\* C37: a call of cleanup_old_sessions(max_age_hours) removes exactly the
\* sessions that have a completed_at before now minus max_age_hours: a
\* session without completed_at stays however long ago it was started, and
\* every session that stays is the record it was.
C37_SweepRemovesCompletedOldSessions ==
    [][(/\ session_call'.op = "cleanup_old_sessions"
        /\ (session_call' # session_call \/ simulation_sessions' # simulation_sessions))
       => LET cutoff == now - session_call'.arg * 3600
              old == {k \in DOMAIN simulation_sessions :
                         /\ simulation_sessions[k].completed_at # None
                         /\ simulation_sessions[k].completed_at[1].iso < cutoff}
          IN  /\ DOMAIN simulation_sessions' = DOMAIN simulation_sessions \ old
              /\ \A k \in DOMAIN simulation_sessions' :
                    simulation_sessions'[k] = simulation_sessions[k]
              /\ \A k \in DOMAIN simulation_sessions :
                    simulation_sessions[k].completed_at = None =>
                        k \in DOMAIN simulation_sessions']_vars

\* A sweep with max age 0 has run and has kept a running session that was
\* started before the cutoff, next to a session that completed at the cutoff.
C37_Witness ==
    /\ session_call.op = "cleanup_old_sessions" /\ session_call.arg = 0
    /\ \E k \in DOMAIN simulation_sessions :
          /\ simulation_sessions[k].completed_at = None
          /\ simulation_sessions[k].started_at.iso < now
    /\ \E k \in DOMAIN simulation_sessions :
          simulation_sessions[k].completed_at = Some(isoformat(now))

\* C38: when run_simulation_loop raises in the background task of a thread,
\* the thread's entry of the thread-status cache becomes status failed with
\* a stopped_reason that starts with "error: ", and keeps the current_turn
\* and max_turns that run_simulation wrote; a step that writes the cache
\* writes the status of one entry, changes no field it was not given and no
\* other entry; and get_thread_status for a thread without an entry answers
\* status unknown and nothing else.
C38_FailedRunKeepsTurns ==
    [][/\ \A thread_id \in ThreadIds :
            (\E outcome \in EngineOutcomes :
                /\ outcome.kind = "raise"
                /\ run_simulation_background_resume(thread_id, outcome))
            => /\ thread_id \in DOMAIN thread_statuses
               /\ thread_statuses'[thread_id].status = "failed"
               /\ thread_statuses'[thread_id].stopped_reason # None
               /\ thread_statuses'[thread_id].stopped_reason[1][1] = "error: "
               /\ thread_statuses[thread_id].current_turn = Some(0)
               /\ thread_statuses'[thread_id].current_turn = Some(0)
               /\ thread_statuses[thread_id].max_turns = Some(threads[thread_id].metadata.max_turns)
               /\ thread_statuses'[thread_id].max_turns = thread_statuses[thread_id].max_turns
       /\ thread_statuses' # thread_statuses =>
            \E thread_id \in DOMAIN thread_statuses' :
                /\ \A other \in DOMAIN thread_statuses \ {thread_id} :
                      /\ other \in DOMAIN thread_statuses'
                      /\ thread_statuses'[other] = thread_statuses[other]
                /\ IF thread_id \in DOMAIN thread_statuses
                   THEN /\ thread_statuses'[thread_id].status = "failed"
                        /\ thread_statuses'[thread_id].current_turn =
                              thread_statuses[thread_id].current_turn
                        /\ thread_statuses'[thread_id].max_turns =
                              thread_statuses[thread_id].max_turns
                   ELSE /\ thread_statuses'[thread_id].status = "running"
                        /\ thread_statuses'[thread_id].stopped_reason = None
       /\ (/\ session_call' # session_call
           /\ session_call'.op = "get_thread_status"
           /\ session_call'.id \notin DOMAIN thread_statuses)
            => session_call'.ret[1].body[1] = ThreadStatus("unknown", None, None, None)]_vars

\* The run of a thread that was started with a limit of one turn has failed:
\* its entry is failed with the error as the reason, and still has turn 0
\* of 1.
C38_Witness ==
    \E thread_id \in DOMAIN thread_statuses :
        /\ background[thread_id] = "done"
        /\ thread_statuses[thread_id] =
              ThreadStatus("failed", Some(<<"error: ", "model unavailable">>), Some(0), Some(1))

\* C39: an answer of get_simulation_status with status completed has
\* should_continue_polling false.
C39_CompletedStopsPolling ==
    StatusAnswered =>
        (session_call.ret[1].body[1].status = "completed"
            => session_call.ret[1].body[1].should_continue_polling = FALSE)

\* C40: a stop_simulation_endpoint call with an id that run_simulation has
\* returned is accepted, and the id is then in the session registry with its
\* stop flag set, so that should_stop_simulation of it is true.
C40_StartedSimulationCanBeStopped ==
    (/\ session_call.op = "stop_simulation_endpoint"
     /\ session_call.id \in DOMAIN background)
        => /\ session_call.ret[1].status_code = 200
           /\ should_stop_simulation(simulation_sessions, session_call.id)

====
